---- MODULE Spec2Model ----
(***************************************************************************)
(* SD-WAN MCP server (src/main.py): the authenticated request pipeline     *)
(* (SDWANMCPServer._make_request, _authenticate, _get_session_status) and  *)
(* the tool dispatcher (handle_call_tool), as a state machine whose steps  *)
(* are the pipeline's suspension points (the awaited HTTP calls).          *)
(*                                                                         *)
(* Python values are tagged records, one field name per Python type, so    *)
(* that values of different types can be compared:                         *)
(*   None -> [t |-> "NoneType"]        str  -> [t |-> "str",  str  |-> s]  *)
(*   int  -> [t |-> "int", int |-> n]  bool -> [t |-> "bool", bool |-> b]  *)
(*   list -> [t |-> "list", list |-> <<..>>]                               *)
(*   dict -> [t |-> "dict", dict |-> [key |-> value, ...]]                 *)
(* A str is a sequence of pieces.  A text the code inspects (substring     *)
(* test, lower(), slice) is spelled one character per piece; a fixed text  *)
(* the code only passes along is one piece.                                *)
(***************************************************************************)
EXTENDS Integers, Sequences, FiniteSets, TLC

\* ------------------------------------------------------------ bounds

\* Number of distinct session-cookie values the controller hands out.
NumTokens == 2

\* ---------------------------------------------------- Python values

PyNone == [t |-> "NoneType"]
PyStr(s) == [t |-> "str", str |-> s]
PyInt(n) == [t |-> "int", int |-> n]
PyBool(b) == [t |-> "bool", bool |-> b]
PyList(l) == [t |-> "list", list |-> l]
PyDict(d) == [t |-> "dict", dict |-> d]

\* bool(x) for the values self.session_id can hold (None or a str).
Truthy(x) == x.t = "str" /\ Len(x.str) > 0

\* The outcome of a Python call: a returned value or a raised exception.
Return(v) == [raised |-> FALSE, exc |-> "", value |-> v]
Raise(e, msg) == [raised |-> TRUE, exc |-> e, value |-> PyStr(<<msg>>)]

Min(a, b) == IF a <= b THEN a ELSE b

\* s[:n]
Slice(s, n) == SubSeq(s, 1, Min(Len(s), n))

\* str.lower(), character by character.
LowerChar(c) ==
    CASE c = "A" -> "a" [] c = "B" -> "b" [] c = "C" -> "c" [] c = "D" -> "d"
      [] c = "E" -> "e" [] c = "F" -> "f" [] c = "G" -> "g" [] c = "H" -> "h"
      [] c = "I" -> "i" [] c = "J" -> "j" [] c = "K" -> "k" [] c = "L" -> "l"
      [] c = "M" -> "m" [] c = "N" -> "n" [] c = "O" -> "o" [] c = "P" -> "p"
      [] c = "Q" -> "q" [] c = "R" -> "r" [] c = "S" -> "s" [] c = "T" -> "t"
      [] c = "U" -> "u" [] c = "V" -> "v" [] c = "W" -> "w" [] c = "X" -> "x"
      [] c = "Y" -> "y" [] c = "Z" -> "z" [] OTHER -> c

Lower(s) == [i \in 1..Len(s) |-> LowerChar(s[i])]

\* sub in s, for two strs.
IsSubstring(sub, s) ==
    \E i \in 0..(Len(s) - Len(sub)) :
        \A j \in 1..Len(sub) : s[i + j] = sub[j]

\* A string literal of the source used as a key: its name as a dict key and
\* its characters as a str.
DataKey == [name |-> "data", chars |-> <<"d", "a", "t", "a">>]

\* key in container, main.py:397: dict -> key membership, list -> element
\* membership, str -> substring, anything else -> TypeError.
PyIn(key, container) ==
    CASE container.t = "dict" -> Return(PyBool(key.name \in DOMAIN container.dict))
      [] container.t = "list" ->
            Return(PyBool(\E i \in 1..Len(container.list) :
                              container.list[i] = PyStr(key.chars)))
      [] container.t = "str" -> Return(PyBool(IsSubstring(key.chars, container.str)))
      [] OTHER -> Raise("TypeError", "argument is not iterable")

\* container[key] with a str key, main.py:398.
PyGetItem(container, key) ==
    CASE container.t = "dict" ->
            IF key.name \in DOMAIN container.dict
            THEN Return(container.dict[key.name])
            ELSE Raise("KeyError", key.name)
      [] container.t = "list" -> Raise("TypeError", "list indices must be integers")
      [] container.t = "str" -> Raise("TypeError", "string indices must be integers")
      [] OTHER -> Raise("TypeError", "object is not subscriptable")

\* ------------------------------------------------------ configuration

\* config.base_url (its default), one piece: lower case, no "login" in it.
base_url == <<"https://192.168.10.130:8443">>
username == PyStr(<<"admin">>)

\* The endpoint each pass-through tool fetches (main.py:466-480).
Endpoint(tool) ==
    CASE tool = "get_fabric_devices" -> <<"/dataservice/device">>
      [] tool = "get_device_monitor" -> <<"/dataservice/device/monitor">>
      [] tool = "get_device_counters" -> <<"/dataservice/device/counters">>
      [] tool = "get_interface_statistics" -> <<"/dataservice/statistics/interface">>

\* str(x) inside an f-string, main.py:484, 816.
PyStrOf(x) == IF x.t = "str" THEN x.str ELSE <<"None">>

\* The endpoint of a per-device tool (main.py:482-496).
DeviceEndpoint(tool, device_id) ==
    LET path == CASE tool = "get_device_config" -> "/dataservice/device/config?deviceId="
                  [] tool = "get_bfd_state" ->
                        "/dataservice/device/bfd/state/device?deviceId="
                  [] tool = "get_bfd_sessions" ->
                        "/dataservice/device/bfd/sessions?deviceId="
                  [] tool = "get_tunnel_statistics" ->
                        "/dataservice/device/tunnel/statistics?deviceId="
    IN  <<path>> \o PyStrOf(device_id)

\* ------------------------------------------------ controller (inputs)

\* A session-cookie value the controller issues, one character per piece.
Token(i) == PyStr(<<"s", "i", "d", ToString(i)>>)

\* The value a JSESSIONID cookie can carry: "JSESSIONID=<token>",
\* "JSESSIONID=" (empty) and a bare "JSESSIONID" (http.cookiejar gives None).
CookieValues == {PyNone, PyStr(<<>>)} \cup {Token(i) : i \in 1..NumTokens}

\* What a response does to the jar's JSESSIONID cookie: nothing (no
\* Set-Cookie), store a value, or expire it (Max-Age=0).
SetCookies ==
    {[op |-> "none", value |-> PyNone], [op |-> "expire", value |-> PyNone]}
        \cup {[op |-> "set", value |-> v] : v \in CookieValues}

\* self.session.cookies, as far as the code reads it: the JSESSIONID cookie.
NoCookie == [present |-> FALSE, value |-> PyNone]

\* requests.Session stores a response's cookies in the jar before it
\* returns the response (main.py:379, 392, 418).
StoreCookies(jar, set_cookie) ==
    CASE set_cookie.op = "set" -> [present |-> TRUE, value |-> set_cookie.value]
      [] set_cookie.op = "expire" -> NoCookie
      [] OTHER -> jar

\* The login POST as the controller may answer it: a transport failure, or
\* a status code with a Set-Cookie effect.
PostResponses ==
    {[failure |-> "ConnectionError", status_code |-> 0,
      set_cookie |-> [op |-> "none", value |-> PyNone]]}
        \cup {[failure |-> "", status_code |-> c, set_cookie |-> k] :
                  c \in {200, 403}, k \in SetCookies}

\* The login page a stale session is redirected to.
LoginUrl == base_url \o <<"/", "L", "o", "g", "i", "n">>

\* Response bodies: the raw text (one piece) of each body the controller
\* sends.
BodyTexts ==
    {"<html>", "null", "7", "'ok'", "'metadata'", "[1]", "['data']",
     "{'x':1}", "{'data':[]}", "{'data':{'x':1}}"}

\* response.json(), main.py:396: the parsed value of each body text, or the
\* ValueError requests raises for a body that is not JSON.
json(text) ==
    CASE text = "null" -> Return(PyNone)
      [] text = "7" -> Return(PyInt(7))
      [] text = "'ok'" -> Return(PyStr(<<"o", "k">>))
      [] text = "'metadata'" ->
            Return(PyStr(<<"m", "e", "t", "a", "d", "a", "t", "a">>))
      [] text = "[1]" -> Return(PyList(<<PyInt(1)>>))
      [] text = "['data']" -> Return(PyList(<<PyStr(<<"d", "a", "t", "a">>)>>))
      [] text = "{'x':1}" -> Return(PyDict([x |-> PyInt(1)]))
      [] text = "{'data':[]}" -> Return(PyDict([data |-> PyList(<<>>)]))
      [] text = "{'data':{'x':1}}" ->
            Return(PyDict([data |-> PyDict([x |-> PyInt(1)])]))
      [] OTHER -> Raise("ValueError", "Expecting value")

\* A GET as the controller may answer it: a transport failure, or a status
\* code, the final URL (the requested one, or the login page after a
\* redirect), a body and a Set-Cookie effect.
GetResponses(url) ==
    {[failure |-> "ConnectionError", status_code |-> 0, url |-> url,
      text |-> "", set_cookie |-> [op |-> "none", value |-> PyNone]]}
        \cup {[failure |-> "", status_code |-> c, url |-> u, text |-> b,
               set_cookie |-> k] :
                  c \in {200, 401, 500}, u \in {url, LoginUrl},
                  b \in BodyTexts, k \in SetCookies}

TransportError(failure) == Raise(failure, "connection failed")

\* ------------------------------------------------------ _authenticate

\* Mutant: the exception is not caught and leaves _authenticate.
OnAuthException_reraise(sid, raised) == [session_id |-> sid, outcome |-> raised]

\* main.py:450-455: any exception inside _authenticate becomes an error
\* result; the token stays as the code left it.
OnAuthException(sid, raised) ==
    [session_id |-> sid,
     outcome |-> Return(PyDict(
        [status |-> PyStr(<<"error">>),
         message |-> PyStr(<<"Authentication exception: ">> \o raised.value.str)]))]

\* main.py:424-428: the loop over the jar.  The first JSESSIONID cookie is
\* stored in self.session_id; the log line slices it, which raises
\* TypeError for a cookie without a value.
ScanCookies(sid, jar) ==
    IF jar.present
    THEN [session_id |-> jar.value,
          outcome |-> IF jar.value.t = "str"
                      THEN Return(PyNone)
                      ELSE Raise("TypeError", "'NoneType' object is not subscriptable")]
    ELSE [session_id |-> sid, outcome |-> Return(PyNone)]

\* main.py:422: the login counts as answered when the status is 200.
LoginAnswered(status_code) == status_code = 200

\* main.py:431-436: the result of a login that left a token.
AuthSuccess(sid) ==
    Return(PyDict(
       [status |-> PyStr(<<"success">>),
        message |-> PyStr(<<"Authentication successful">>),
        session_id |-> PyStr(Slice(sid.str, 20) \o <<".", ".", ".">>),
        response |-> PyStr(<<"login response">>)]))

\* main.py:438-442: the result of a login answered 200 that left no token.
AuthNoSession ==
    Return(PyDict(
       [status |-> PyStr(<<"error">>),
        message |-> PyStr(<<"Authentication failed - no session ID received">>),
        response |-> PyStr(<<"login response">>)]))

\* main.py:444-448: the result of a login answered with another status.
AuthRefused(status_code) ==
    Return(PyDict(
       [status |-> PyStr(<<"error">>),
        message |-> PyStr(<<"Authentication failed with status code: ",
                            ToString(status_code)>>),
        response |-> PyStr(<<"login response">>)]))

\* Mutant: the jar is scanned before the status is looked at, so a refused
\* login that sets a cookie stores it.
_authenticate_scan_first(sid, jar, post) ==
    IF post.failure # ""
    THEN OnAuthException(sid, TransportError(post.failure))
    ELSE LET scan == ScanCookies(sid, jar)
         IN  IF scan.outcome.raised
             THEN OnAuthException(scan.session_id, scan.outcome)
             ELSE IF ~LoginAnswered(post.status_code)
             THEN [session_id |-> scan.session_id,
                   outcome |-> AuthRefused(post.status_code)]
             ELSE IF Truthy(scan.session_id)
             THEN [session_id |-> scan.session_id,
                   outcome |-> AuthSuccess(scan.session_id)]
             ELSE [session_id |-> scan.session_id, outcome |-> AuthNoSession]

\* main.py:404-455.  sid: self.session_id at the call; jar: the cookie jar
\* once the POST has returned; post: the POST's answer.  Gives the new
\* self.session_id and the call's outcome.
_authenticate(sid, jar, post) ==
    IF post.failure # ""
    THEN OnAuthException(sid, TransportError(post.failure))
    ELSE IF LoginAnswered(post.status_code)
    THEN LET scan == ScanCookies(sid, jar)
         IN  IF scan.outcome.raised
             THEN OnAuthException(scan.session_id, scan.outcome)
             ELSE IF Truthy(scan.session_id)
             THEN [session_id |-> scan.session_id,
                   outcome |-> AuthSuccess(scan.session_id)]
             ELSE [session_id |-> scan.session_id, outcome |-> AuthNoSession]
    ELSE [session_id |-> sid, outcome |-> AuthRefused(post.status_code)]

\* ------------------------------------------------------ _make_request

\* main.py:371 and 386: "error" in auth_result, a test on the dict's keys.
HasErrorKey(result) == result.t = "dict" /\ "error" \in DOMAIN result.dict

\* Mutant: "is None" in place of "not": an empty token counts as held.
NeedsAuthentication_is_none(sid) == sid = PyNone

\* main.py:369: no usable token held.
NeedsAuthentication(sid) == ~Truthy(sid)

\* Mutant: only the redirect to the login page counts, a 401 does not.
SessionExpired_redirect_only(response) ==
    IsSubstring(<<"l", "o", "g", "i", "n">>, Lower(response.url))

\* main.py:383: the expired-session signal.
SessionExpired(response) ==
    \/ response.status_code = 401
    \/ IsSubstring(<<"l", "o", "g", "i", "n">>, Lower(response.url))

\* main.py:395-402: the envelope.  TypeError from the membership test or
\* the subscript is not a ValueError, so it leaves _make_request.
Unwrap(response) ==
    LET response_data == json(response.text)
        envelope_error(msg) ==
            Return(PyDict([error |-> PyStr(<<msg>>),
                           response |-> PyStr(<<response.text>>),
                           status_code |-> PyInt(response.status_code)]))
    IN  IF response_data.raised
        THEN envelope_error("Response is not in JSON format")
        ELSE LET has_data == PyIn(DataKey, response_data.value)
             IN  IF has_data.raised
                 THEN has_data
                 ELSE IF has_data.value.bool
                 THEN PyGetItem(response_data.value, DataKey)
                 ELSE envelope_error("Key 'data' not found in response")

\* main.py:372 and 387: the error a failed authentication turns into.
AuthError(msg, auth_result) ==
    Return(PyDict([error |-> PyStr(<<msg>>), auth_error |-> auth_result]))

\* ----------------------------------------------------- other handlers

\* main.py:457-464.
_get_session_status(sid) ==
    Return(PyDict(
       [authenticated |-> PyBool(Truthy(sid)),
        session_id |-> IF Truthy(sid)
                       THEN PyStr(Slice(sid.str, 20) \o <<".", ".", ".">>)
                       ELSE PyNone,
        base_url |-> PyStr(base_url),
        username |-> username]))

\* main.py:360-364: the dispatcher's reply.  A returned result is sent as
\* its JSON text (kept here as the value the text denotes); a raised
\* exception is sent as the text "Error: <message>".
handle_call_tool(outcome) ==
    IF outcome.raised
    THEN [type |-> "text", is_error_text |-> TRUE,
          content |-> PyStr(<<"Error: ">> \o outcome.value.str)]
    ELSE [type |-> "text", is_error_text |-> FALSE, content |-> outcome.value]

\* The tools that take a device (main.py:304-323).
DeviceTools ==
    {"get_device_config", "get_bfd_state", "get_bfd_sessions", "get_tunnel_statistics"}

\* The names the dispatcher knows (main.py:296-356).
ToolNames ==
    {"get_fabric_devices", "get_device_monitor", "get_device_counters",
     "get_interface_statistics", "get_device_health_summary",
     "filter_devices_by_status", "get_top_interfaces_by_traffic",
     "check_bfd_session_health", "generate_network_report", "get_device_alerts",
     "monitor_interface_utilization", "get_network_topology", "authenticate",
     "get_session_status"} \cup DeviceTools

\* The arguments tried: none, an empty object, an empty device id or status,
\* a device id, a status, an argument of another name.
Arguments ==
    {PyNone, PyDict(<<>>),
     PyDict([device_id |-> PyStr(<<>>)]), PyDict([device_id |-> PyStr(<<"d1">>)]),
     PyDict([status |-> PyStr(<<>>)]), PyDict([status |-> PyStr(<<"u", "p">>)]),
     PyDict([limit |-> PyInt(5)])}

\* arguments.get(key) if arguments else None (main.py:305, 325).
Argument(arguments, key) ==
    IF arguments.t = "dict" /\ key \in DOMAIN arguments.dict
    THEN arguments.dict[key] ELSE PyNone

\* Mutant: a device id is asked for only where arguments were sent.
Validated_where_sent(name, arguments) ==
    IF name \in DeviceTools /\ arguments.t = "dict"
          /\ ~Truthy(Argument(arguments, "device_id"))
    THEN Raise("ValueError", "device_id is required")
    ELSE IF name = "filter_devices_by_status" /\ ~Truthy(Argument(arguments, "status"))
    THEN Raise("ValueError", "status is required")
    ELSE IF name \notin ToolNames THEN Raise("ValueError", "Unknown tool: " \o name)
    ELSE Return(PyNone)

\* main.py:296-358: what the dispatcher raises before it calls the tool, if
\* anything.
Validated(name, arguments) ==
    IF name \in DeviceTools /\ ~Truthy(Argument(arguments, "device_id"))
    THEN Raise("ValueError", "device_id is required")
    ELSE IF name = "filter_devices_by_status" /\ ~Truthy(Argument(arguments, "status"))
    THEN Raise("ValueError", "status is required")
    ELSE IF name \notin ToolNames THEN Raise("ValueError", "Unknown tool: " \o name)
    ELSE Return(PyNone)

\* -------------------------------------------------------------- state

VARIABLES
    session_id,  \* self.session_id: None or the str of the session cookie
    cookies,     \* self.session.cookies: the jar's JSESSIONID cookie
    last_auth,   \* history: the latest _authenticate call and the latest success
    pc,          \* per invocation: the await it is suspended at
    call,        \* per invocation: the tool, the URL, whether a token was held
    log,         \* per invocation: the authentications and GETs it has made
    auth,        \* the _authenticate call this step completed, if any
    ret          \* the tool invocation this step completed, if any

vars == <<session_id, cookies, last_auth, pc, call, log, auth, ret>>

\* Tool invocations that may be in flight.
Procs == {"p1", "p2"}

\* The pass-through tools invoked here (each is one _make_request).
FetchTools == {"get_fabric_devices", "get_interface_statistics"}

NoCall == [tool |-> "", url |-> <<>>, held |-> FALSE]
NoAuth == [done |-> FALSE]
NoRet == [done |-> FALSE]
NoResponse == [status_code |-> 0, url |-> <<>>, text |-> ""]

\* main.py:24-35: the state after construction.
Init ==
    /\ session_id = PyNone
    /\ cookies = NoCookie
    /\ last_auth = [latest |-> "none", token |-> PyNone]
    /\ pc = [p \in Procs |-> "idle"]
    /\ call = [p \in Procs |-> NoCall]
    /\ log = [p \in Procs |-> <<>>]
    /\ auth = NoAuth
    /\ ret = NoRet

\* The status an _authenticate outcome reports.
AuthStatus(outcome) ==
    IF outcome.raised THEN "raised" ELSE outcome.value.dict.status.str[1]

AuthEvent(outcome) == [e |-> "authenticate", status |-> AuthStatus(outcome)]
GetEvent(url) == [e |-> "GET", url |-> url]
ResponseEvent(response) ==
    [e |-> "response", status_code |-> response.status_code, url |-> response.url]
FailureEvent(response) == [e |-> "failure", failure |-> response.failure]

\* The jar after an HTTP call: a transport failure brings no cookies.
JarAfter(response) ==
    IF response.failure = "" THEN StoreCookies(cookies, response.set_cookie)
    ELSE cookies

\* One run of _authenticate by invocation p, from the POST's answer to the
\* return r: the token, the jar and the history it leaves.
Authenticated(p, post, r) ==
    /\ session_id' = r.session_id
    /\ cookies' = JarAfter(post)
    /\ last_auth' = [latest |-> AuthStatus(r.outcome),
                     token |-> IF AuthStatus(r.outcome) = "success"
                               THEN r.session_id ELSE last_auth.token]
    /\ auth' = [done |-> TRUE, proc |-> p, before |-> session_id,
                post |-> post, outcome |-> r.outcome]

\* The invocation of p ends: the dispatcher sends the reply (main.py:360-364).
Reply(p, events, final, outcome) ==
    /\ ret' = [done |-> TRUE, proc |-> p, tool |-> call[p].tool,
               url |-> call[p].url, held |-> call[p].held,
               log |-> events, final |-> final, outcome |-> outcome,
               reply |-> handle_call_tool(outcome),
               arguments |-> IF "arguments" \in DOMAIN call[p]
                             THEN call[p].arguments ELSE PyNone]
    /\ pc' = [pc EXCEPT ![p] = "idle"]
    /\ call' = [call EXCEPT ![p] = NoCall]
    /\ log' = [log EXCEPT ![p] = <<>>]

\* The invocation of p goes on to its next await.
Await(p, at, events) ==
    /\ pc' = [pc EXCEPT ![p] = at]
    /\ log' = [log EXCEPT ![p] = events]
    /\ ret' = NoRet
    /\ UNCHANGED call

\* ------------------------------------------------------------ actions

\* Tool "authenticate" (main.py:351-354), and main()'s initial login
\* (main.py:950): _authenticate runs to its POST.  The credentials only fill
\* the POST's payload (main.py:407-410); the controller's answer is any of
\* PostResponses whatever they are.
CallAuthenticate(p) ==
    /\ pc[p] = "idle"
    /\ pc' = [pc EXCEPT ![p] = "authenticate"]
    /\ call' = [call EXCEPT ![p] =
                   [tool |-> "authenticate", url |-> <<>>, held |-> Truthy(session_id)]]
    /\ log' = [log EXCEPT ![p] = <<>>]
    /\ auth' = NoAuth
    /\ ret' = NoRet
    /\ UNCHANGED <<session_id, cookies, last_auth>>

\* The POST of a direct _authenticate returns (main.py:416-455).
AuthenticateResponse(p) ==
    /\ pc[p] = "authenticate"
    /\ \E post \in PostResponses :
         LET r == _authenticate(session_id, JarAfter(post), post) IN
          /\ Authenticated(p, post, r)
          /\ Reply(p, log[p] \o <<AuthEvent(r.outcome)>>, NoResponse, r.outcome)

\* Tool "get_session_status" (main.py:355-356, 457-464): no await.
CallSessionStatus(p) ==
    /\ pc[p] = "idle"
    /\ ret' = [done |-> TRUE, proc |-> p, tool |-> "get_session_status",
               url |-> <<>>, held |-> Truthy(session_id), log |-> <<>>,
               final |-> NoResponse,
               outcome |-> _get_session_status(session_id),
               reply |-> handle_call_tool(_get_session_status(session_id))]
    /\ auth' = NoAuth
    /\ UNCHANGED <<session_id, cookies, last_auth, pc, call, log>>

\* A pass-through tool (main.py:296-303, 466-480): _make_request runs to
\* its first await, the login POST when no token is held (main.py:369-370),
\* the GET otherwise (main.py:374-380).
CallFetch(p, tool) ==
    /\ pc[p] = "idle"
    /\ LET url == base_url \o Endpoint(tool)
       IN  /\ call' = [call EXCEPT ![p] =
                          [tool |-> tool, url |-> url, held |-> Truthy(session_id)]]
           /\ IF NeedsAuthentication(session_id)
              THEN /\ pc' = [pc EXCEPT ![p] = "pre_auth"]
                   /\ log' = [log EXCEPT ![p] = <<>>]
              ELSE /\ pc' = [pc EXCEPT ![p] = "get"]
                   /\ log' = [log EXCEPT ![p] = <<GetEvent(url)>>]
    /\ auth' = NoAuth
    /\ ret' = NoRet
    /\ UNCHANGED <<session_id, cookies, last_auth>>

\* A tool that takes a device (main.py:304-323, 482-496), invoked with
\* arguments the dispatcher accepts: _make_request runs to its first await.
CallDeviceTool(p, tool, arguments) ==
    /\ pc[p] = "idle"
    /\ ~Validated(tool, arguments).raised
    /\ LET url == base_url \o DeviceEndpoint(tool, Argument(arguments, "device_id"))
       IN  /\ call' = [call EXCEPT ![p] =
                          [tool |-> tool, url |-> url, held |-> Truthy(session_id),
                           arguments |-> arguments]]
           /\ IF NeedsAuthentication(session_id)
              THEN /\ pc' = [pc EXCEPT ![p] = "pre_auth"]
                   /\ log' = [log EXCEPT ![p] = <<>>]
              ELSE /\ pc' = [pc EXCEPT ![p] = "get"]
                   /\ log' = [log EXCEPT ![p] = <<GetEvent(url)>>]
    /\ auth' = NoAuth
    /\ ret' = NoRet
    /\ UNCHANGED <<session_id, cookies, last_auth>>

\* An invocation the dispatcher does not accept (main.py:306-307, 326-327,
\* 357-358): the ValueError is caught at main.py:362-364 and the reply
\* sent; no tool is called.
CallRejected(p, name, arguments) ==
    /\ pc[p] = "idle"
    /\ Validated(name, arguments).raised
    /\ ret' = [done |-> TRUE, proc |-> p, tool |-> name, url |-> <<>>,
               held |-> Truthy(session_id), log |-> <<>>, final |-> NoResponse,
               outcome |-> Validated(name, arguments),
               reply |-> handle_call_tool(Validated(name, arguments)),
               arguments |-> arguments]
    /\ auth' = NoAuth
    /\ UNCHANGED <<session_id, cookies, last_auth, pc, call, log>>

\* The authentication before the GET returns (main.py:370-380).
PreAuthResponse(p) ==
    /\ pc[p] = "pre_auth"
    /\ \E post \in PostResponses :
         LET r == _authenticate(session_id, JarAfter(post), post) IN
          /\ Authenticated(p, post, r)
          /\ LET events == log[p] \o <<AuthEvent(r.outcome)>>
             IN  IF r.outcome.raised
                 THEN Reply(p, events, NoResponse, r.outcome)
                 ELSE IF HasErrorKey(r.outcome.value)
                 THEN Reply(p, events, NoResponse,
                            AuthError("Authentication required. Please authenticate first.",
                                      r.outcome.value))
                 ELSE Await(p, "get", events \o <<GetEvent(call[p].url)>>)

\* The first GET returns (main.py:377-402): a transport failure leaves
\* _make_request as an exception; an expired-session signal starts the
\* re-authentication; any other answer is unwrapped.
GetResponse(p) ==
    /\ pc[p] = "get"
    /\ \E response \in GetResponses(call[p].url) :
          /\ cookies' = JarAfter(response)
          /\ IF response.failure # ""
             THEN Reply(p, log[p] \o <<FailureEvent(response)>>, NoResponse,
                        TransportError(response.failure))
             ELSE LET events == log[p] \o <<ResponseEvent(response)>>
                      final == [status_code |-> response.status_code,
                                url |-> response.url, text |-> response.text]
                  IN  IF SessionExpired(response)
                      THEN Await(p, "re_auth", events)
                      ELSE Reply(p, events, final, Unwrap(response))
    /\ auth' = NoAuth
    /\ UNCHANGED <<session_id, last_auth>>

\* The re-authentication returns (main.py:385-393).
ReAuthResponse(p) ==
    /\ pc[p] = "re_auth"
    /\ \E post \in PostResponses :
         LET r == _authenticate(session_id, JarAfter(post), post) IN
          /\ Authenticated(p, post, r)
          /\ LET events == log[p] \o <<AuthEvent(r.outcome)>>
             IN  IF r.outcome.raised
                 THEN Reply(p, events, NoResponse, r.outcome)
                 ELSE IF HasErrorKey(r.outcome.value)
                 THEN Reply(p, events, NoResponse,
                            AuthError("Re-authentication failed", r.outcome.value))
                 ELSE Await(p, "retry", events \o <<GetEvent(call[p].url)>>)

\* Mutant: the retried response is checked for expiry like the first one.
RetryResponse_rechecked(p) ==
    /\ pc[p] = "retry"
    /\ \E response \in GetResponses(call[p].url) :
          /\ cookies' = JarAfter(response)
          /\ IF response.failure # ""
             THEN Reply(p, log[p] \o <<FailureEvent(response)>>, NoResponse,
                        TransportError(response.failure))
             ELSE IF SessionExpired(response)
             THEN Await(p, "re_auth", log[p] \o <<ResponseEvent(response)>>)
             ELSE Reply(p, log[p] \o <<ResponseEvent(response)>>,
                        [status_code |-> response.status_code,
                         url |-> response.url, text |-> response.text],
                        Unwrap(response))
    /\ auth' = NoAuth
    /\ UNCHANGED <<session_id, last_auth>>

\* The retried GET returns (main.py:390-402): it is unwrapped as it is.
RetryResponse(p) ==
    /\ pc[p] = "retry"
    /\ \E response \in GetResponses(call[p].url) :
          /\ cookies' = JarAfter(response)
          /\ IF response.failure # ""
             THEN Reply(p, log[p] \o <<FailureEvent(response)>>, NoResponse,
                        TransportError(response.failure))
             ELSE Reply(p, log[p] \o <<ResponseEvent(response)>>,
                        [status_code |-> response.status_code,
                         url |-> response.url, text |-> response.text],
                        Unwrap(response))
    /\ auth' = NoAuth
    /\ UNCHANGED <<session_id, last_auth>>

\* One invocation at a time (spec section 5: a single logical flow per
\* incoming tool invocation): a tool is invoked when nothing is in flight.
Quiet == \A q \in Procs : pc[q] = "idle"

Next ==
    \/ Quiet /\ CallAuthenticate("p1")
    \/ Quiet /\ CallSessionStatus("p1")
    \/ Quiet /\ \E tool \in FetchTools : CallFetch("p1", tool)
    \/ \E p \in Procs : AuthenticateResponse(p)
    \/ \E p \in Procs : PreAuthResponse(p)
    \/ \E p \in Procs : GetResponse(p)
    \/ \E p \in Procs : ReAuthResponse(p)
    \/ \E p \in Procs : RetryResponse(p)

Spec == Init /\ [][Next]_vars

\* ------------------------------------------- overlapping invocations

\* The controller of the overlapping specification: a GET that carries no
\* expired-session signal is answered with the body {"data": []} and sets
\* no cookie (main.py:377-380, 390-393); its expired-session signal is the
\* status 401 (main.py:382).
PlainAnswer ==
    /\ cookies' = cookies
    /\ ret'.done => ret'.outcome = Return(PyList(<<>>))
    /\ \A q \in Procs :
          pc'[q] = "re_auth" => log'[q][Len(log'[q])].status_code = 401

\* The controller of the overlapping specification: a login answered 200
\* sets a session cookie with a token, any other answer sets none
\* (main.py:416-419).
PlainLogin ==
    /\ auth'.post.set_cookie.op = (IF auth'.post.status_code = 200 THEN "set" ELSE "none")
    /\ Truthy(auth'.post.set_cookie.value) = (auth'.post.status_code = 200)

\* Tool invocations overlap: the dispatcher (main.py:290-364) is a coroutine
\* per invocation, and an invocation suspended at an awaited HTTP call
\* (main.py:377, 390, 416) lets another one start or go on.  The source
\* holds no lock around self.session_id or _authenticate.
NextConcurrent ==
    \/ \E p \in Procs : CallAuthenticate(p)
    \/ \E p \in Procs : CallSessionStatus(p)
    \/ \E p \in Procs : CallFetch(p, "get_fabric_devices")
    \/ \E p \in Procs : AuthenticateResponse(p) /\ PlainLogin
    \/ \E p \in Procs : PreAuthResponse(p) /\ PlainLogin
    \/ \E p \in Procs : GetResponse(p) /\ PlainAnswer
    \/ \E p \in Procs : ReAuthResponse(p) /\ PlainLogin
    \/ \E p \in Procs : RetryResponse(p) /\ PlainAnswer

SpecConcurrent == Init /\ [][NextConcurrent]_vars

\* ------------------------------------------------ the dispatch boundary

\* The dispatcher receives invocations of the tools that take a device, of
\* filter_devices_by_status without a status and of tools it does not know,
\* one at a time, with and without a token held (the controller answers
\* plainly here; an accepted filter_devices_by_status is FilterReturns
\* below).
NextDispatch ==
    \/ Quiet /\ CallAuthenticate("p1")
    \/ Quiet /\ \E tool \in DeviceTools, arguments \in Arguments :
                    CallDeviceTool("p1", tool, arguments)
    \/ Quiet /\ \E name \in ToolNames \cup {"reboot_device"}, arguments \in Arguments :
                    CallRejected("p1", name, arguments)
    \/ \E p \in Procs : AuthenticateResponse(p) /\ PlainLogin
    \/ \E p \in Procs : PreAuthResponse(p) /\ PlainLogin
    \/ \E p \in Procs : GetResponse(p) /\ PlainAnswer
    \/ \E p \in Procs : ReAuthResponse(p) /\ PlainLogin
    \/ \E p \in Procs : RetryResponse(p) /\ PlainAnswer

SpecDispatch == Init /\ [][NextDispatch]_vars

\* ------------------------------------------- aggregation: the upstream

\* Texts the aggregation operations compare, lower-case or search, one
\* character per piece.
StrReachable == <<"r", "e", "a", "c", "h", "a", "b", "l", "e">>
StrUnreachable == <<"u", "n">> \o StrReachable
StrNormal == <<"n", "o", "r", "m", "a", "l">>
StrWarning == <<"w", "a", "r", "n", "i", "n", "g">>
StrCritical == <<"c", "r", "i", "t", "i", "c", "a", "l">>
StrUnknown == <<"u", "n", "k", "n", "o", "w", "n">>
StrUp == <<"u", "p">>
StrDown == <<"d", "o", "w", "n">>

\* Longest device list and interface list the controller returns, and the
\* longest list of devices that differ in reachability alone (long enough
\* for every bucket of overall_health).
MaxDevices == 2
MaxInterfaces == 3
MaxFleet == 5

\* Longest list of BFD sessions, or of tunnels, of one device.
MaxSessions == 2

\* Devices as /dataservice/device lists them: objects whose fields are
\* optional.  Between them: both reachabilities, other letter case, a
\* missing and a null reachability, statuses with and without "warning" and
\* "critical", devices with and without a deviceId.
Devices ==
    {PyDict([deviceId |-> PyStr(<<"d1">>), hostname |-> PyStr(<<"h1">>),
             reachability |-> PyStr(StrReachable), status |-> PyStr(StrNormal),
             deviceType |-> PyStr(<<"vedge">>), version |-> PyStr(<<"20.3">>),
             lastupdated |-> PyStr(<<"t1">>)]),
     PyDict([deviceId |-> PyStr(<<"d2">>), hostname |-> PyStr(<<"h2">>),
             reachability |-> PyStr(StrUnreachable), status |-> PyStr(StrNormal),
             deviceType |-> PyStr(<<"vsmart">>), version |-> PyStr(<<"20.3">>)]),
     PyDict([deviceId |-> PyStr(<<"d1">>),
             reachability |-> PyStr(<<"R">> \o Tail(StrReachable)),
             status |-> PyStr(<<"M", "i", "n", "o", "r", "-", "W">> \o Tail(StrWarning))]),
     PyDict([deviceId |-> PyStr(<<"d2">>),
             reachability |-> PyStr(<<"U", "N">> \o StrReachable),
             status |-> PyStr(StrCritical), deviceType |-> PyStr(<<"vedge">>)]),
     PyDict([hostname |-> PyStr(<<"h5">>), status |-> PyStr(StrDown)]),
     PyDict([deviceId |-> PyStr(<<>>), reachability |-> PyNone])}

\* The two devices that differ in reachability alone.
FleetDevices ==
    {PyDict([deviceId |-> PyStr(<<"d1">>), reachability |-> PyStr(StrReachable),
             status |-> PyStr(StrNormal)]),
     PyDict([deviceId |-> PyStr(<<"d1">>), reachability |-> PyStr(StrUnreachable),
             status |-> PyStr(StrNormal)])}

\* The lists of at most n items of a set.
ListsOf(items, n) == UNION {[1..k -> items] : k \in 0..n}

\* The "data" payloads of /dataservice/device: lists of devices, and a list
\* whose item is not an object.
DevicePayloads ==
    {PyList(l) : l \in ListsOf(Devices, MaxDevices)} \cup {PyList(<<PyInt(1)>>)}

FleetPayloads == {PyList(l) : l \in ListsOf(FleetDevices, MaxFleet)}

\* A GET answered 200 at the requested URL with this body.
Answer200(text) == [status_code |-> 200, url |-> base_url, text |-> text]

\* What one fetch (_make_request, main.py:366-402) can yield without a list
\* payload: the two envelope errors, a "data" field that is an object, the
\* TypeError of a JSON number and the exception of session.get.
FailedFetches ==
    {Unwrap(Answer200(text)) : text \in {"<html>", "{'x':1}", "7", "{'data':{'x':1}}"}}
        \cup {TransportError("ConnectionError")}

\* What one fetch can yield: a payload (the "data" field of the envelope,
\* main.py:397-398) or a failure.
FetchOutcomes(payloads) == {Return(d) : d \in payloads} \cup FailedFetches

\* A fetch whose payload the operation never reads: an empty list, or an
\* exception.
AuxOutcomes == {Return(PyList(<<>>)), TransportError("ConnectionError")}

\* ---------------------------------------- aggregation: Python helpers

\* isinstance(x, list) of a fetch outcome that returned.
IsList(x) == x.t = "list"

\* d.get(key, default) of a dict.
Get(d, key, default) == IF key \in DOMAIN d.dict THEN d.dict[key] ELSE default

\* d.get(key): the default is None.
GetOrNone(d, key) == Get(d, key, PyNone)

\* item.get(...) of an item that is no dict: the AttributeError.
NoGet(item) ==
    Raise("AttributeError", "'" \o item.t \o "' object has no attribute 'get'")

\* value.lower() of a value that is no str.
NoLower(value) ==
    Raise("AttributeError", "'" \o value.t \o "' object has no attribute 'lower'")

\* The first place in a list where the loop body raises, 0 if it never does.
FirstRaising(l, Raises(_)) ==
    IF \E i \in 1..Len(l) : Raises(l[i])
    THEN CHOOSE i \in 1..Len(l) : Raises(l[i]) /\ \A j \in 1..(i - 1) : ~Raises(l[j])
    ELSE 0

\* The number of items of a list that satisfy a test.
CountOf(l, Test(_)) == Cardinality({i \in 1..Len(l) : Test(l[i])})

\* Mutant: the exception is raised again.
FailedTo_reraised(what, raised) == raised

\* except Exception as e: return {"error": f"Failed to ...: {str(e)}"}
FailedTo(what, raised) ==
    Return(PyDict([error |-> PyStr(<<"Failed to ", what, ": ">> \o raised.value.str)]))

\* A fetch of an endpoint, as an aggregation logs it.
FetchEvent(endpoint) == [e |-> "fetch", endpoint |-> endpoint]

\* -------------------------------------- _get_device_health_summary

\* Mutant: ">" in place of ">=" at the thresholds.
HealthOf_strict(total, ups) ==
    IF total = 0 THEN <<"unknown">>
    ELSE IF 100 * ups > 95 * total THEN <<"excellent">>
    ELSE IF 100 * ups > 80 * total THEN <<"good">>
    ELSE IF 100 * ups > 60 * total THEN <<"fair">>
    ELSE <<"poor">>

\* main.py:541-551: (devices_up / total_devices) * 100 against the
\* thresholds, in whole numbers (the float comparison agrees with
\* 100 * up >= t * total for every total up to 3000).
HealthOf(total, ups) ==
    IF total = 0 THEN <<"unknown">>
    ELSE IF 100 * ups >= 95 * total THEN <<"excellent">>
    ELSE IF 100 * ups >= 80 * total THEN <<"good">>
    ELSE IF 100 * ups >= 60 * total THEN <<"fair">>
    ELSE <<"poor">>

\* main.py:534: the device counts as up.
IsUp(device) == GetOrNone(device, "reachability") = PyStr(StrReachable)

\* main.py:525-531.
DeviceInfo(device) ==
    PyDict([device_id |-> Get(device, "deviceId", PyStr(StrUnknown)),
            hostname |-> Get(device, "hostname", PyStr(StrUnknown)),
            status |-> Get(device, "status", PyStr(StrUnknown)),
            reachability |-> Get(device, "reachability", PyStr(StrUnknown)),
            device_type |-> Get(device, "deviceType", PyStr(StrUnknown))])

\* main.py:506-553: the summary of a device list (an empty list for a fetch
\* that gave no list).
HealthSummary(devices) ==
    LET total == Len(devices)
        ups == CountOf(devices, IsUp)
    IN  PyDict([total_devices |-> PyInt(total),
                devices_up |-> PyInt(ups),
                devices_down |-> PyInt(total - ups),
                devices_with_issues |-> PyInt(0),
                overall_health |-> PyStr(HealthOf(total, ups)),
                device_details |-> PyList([i \in 1..total |-> DeviceInfo(devices[i])]),
                summary_stats |-> PyDict([total_interfaces |-> PyInt(0),
                                          active_interfaces |-> PyInt(0),
                                          total_bfd_sessions |-> PyInt(0),
                                          active_bfd_sessions |-> PyInt(0)])])

NotDict(item) == item.t # "dict"

\* The fetches an operation makes in a row, up to and with the first that
\* raises.
FetchesUntilRaise(endpoints, outcomes) ==
    LET n == FirstRaising(outcomes, LAMBDA o : o.raised)
    IN  [i \in 1..(IF n = 0 THEN Len(endpoints) ELSE n) |-> FetchEvent(endpoints[i])]

\* main.py:498-556.  upstream: what each endpoint yields when fetched.
_get_device_health_summary(upstream) ==
    LET fetched == <<upstream.devices, upstream.monitor, upstream.counters>>
        fetches == FetchesUntilRaise(<<Endpoint("get_fabric_devices"),
                                       Endpoint("get_device_monitor"),
                                       Endpoint("get_device_counters")>>, fetched)
        raising == FirstRaising(fetched, LAMBDA o : o.raised)
        what == "generate health summary"
        devices == upstream.devices.value
    IN  [fetches |-> fetches,
         outcome |->
            IF raising # 0 THEN FailedTo(what, fetched[raising])
            ELSE IF ~IsList(devices) THEN Return(HealthSummary(<<>>))
            ELSE IF FirstRaising(devices.list, NotDict) # 0
            THEN FailedTo(what, NoGet(devices.list[FirstRaising(devices.list, NotDict)]))
            ELSE Return(HealthSummary(devices.list))]

\* --------------------------------------- _filter_devices_by_status

\* The status arguments tried: the five of the tool's schema
\* (main.py:149-152), one in other letter case and one outside the schema.
Statuses ==
    {PyStr(StrUp), PyStr(StrDown), PyStr(StrNormal), PyStr(StrCritical),
     PyStr(StrWarning), PyStr(<<"D", "O", "W", "N">>), PyStr(<<"o", "f", "f">>)}

\* main.py:566-567: what the loop body raises on a device, if anything.
FilterRaise(device) ==
    IF NotDict(device) THEN NoGet(device)
    ELSE IF Get(device, "reachability", PyStr(<<>>)).t # "str"
    THEN NoLower(Get(device, "reachability", PyStr(<<>>)))
    ELSE IF Get(device, "status", PyStr(<<>>)).t # "str"
    THEN NoLower(Get(device, "status", PyStr(<<>>)))
    ELSE Return(PyNone)

\* Mutant: the reachability is compared as it is, not lower-cased.
Keeps_exact(status, device) ==
    LET wanted == Lower(status.str)
        device_status == Get(device, "reachability", PyStr(<<>>)).str
        device_state == Lower(Get(device, "status", PyStr(<<>>)).str)
    IN  \/ wanted = StrUp /\ device_status = StrReachable
        \/ wanted = StrDown /\ device_status = StrUnreachable
        \/ wanted = StrNormal /\ device_state = StrNormal
        \/ wanted = StrCritical /\ IsSubstring(StrCritical, device_state)
        \/ wanted = StrWarning /\ IsSubstring(StrWarning, device_state)

\* main.py:566-579: the device passes the filter.
Keeps(status, device) ==
    LET wanted == Lower(status.str)
        device_status == Lower(Get(device, "reachability", PyStr(<<>>)).str)
        device_state == Lower(Get(device, "status", PyStr(<<>>)).str)
    IN  \/ wanted = StrUp /\ device_status = StrReachable
        \/ wanted = StrDown /\ device_status = StrUnreachable
        \/ wanted = StrNormal /\ device_state = StrNormal
        \/ wanted = StrCritical /\ IsSubstring(StrCritical, device_state)
        \/ wanted = StrWarning /\ IsSubstring(StrWarning, device_state)

\* The items of a list that pass a test, in the list's order.
RECURSIVE Filtered(_, _)
Filtered(l, keep) ==
    IF Len(l) = 0 THEN <<>>
    ELSE Filtered(SubSeq(l, 1, Len(l) - 1), keep)
            \o (IF Len(l) \in keep THEN <<l[Len(l)]>> ELSE <<>>)

\* main.py:558-589.
_filter_devices_by_status(status, upstream) ==
    LET devices == upstream.devices.value
        what == "filter devices"
        result(total, filtered) ==
            Return(PyDict([filter_criteria |-> status,
                           total_devices |-> PyInt(total),
                           filtered_count |-> PyInt(Len(filtered)),
                           devices |-> PyList(filtered)]))
    IN  [fetches |-> <<FetchEvent(Endpoint("get_fabric_devices"))>>,
         outcome |->
            IF upstream.devices.raised THEN FailedTo(what, upstream.devices)
            ELSE IF ~IsList(devices) THEN result(0, <<>>)
            ELSE LET raising == FirstRaising(devices.list,
                                             LAMBDA d : FilterRaise(d).raised)
                 IN  IF raising # 0
                     THEN FailedTo(what, FilterRaise(devices.list[raising]))
                     ELSE result(Len(devices.list),
                                 Filtered(devices.list,
                                          {i \in 1..Len(devices.list) :
                                              Keeps(status, devices.list[i])}))]

\* ---------------------------------- _get_top_interfaces_by_traffic

\* Interfaces as /dataservice/statistics/interface lists them.  Between
\* them: equal and different counters, missing counters, a null counter,
\* error counts at and over 100, interfaces with and without a deviceId.
Interfaces ==
    {PyDict([deviceId |-> PyStr(<<"d1">>), interface |-> PyStr(<<"ge0/0">>),
             rx_octets |-> PyInt(100), tx_octets |-> PyInt(50),
             rx_pkts |-> PyInt(2), tx_pkts |-> PyInt(1),
             rx_errors |-> PyInt(0), tx_errors |-> PyInt(0)]
                @@ ("if-admin-status" :> PyStr(<<"up">>))),
     PyDict([deviceId |-> PyStr(<<"d1">>), interface |-> PyStr(<<"ge0/1">>),
             rx_octets |-> PyInt(50), tx_octets |-> PyInt(100),
             rx_pkts |-> PyInt(2), tx_pkts |-> PyInt(3),
             rx_errors |-> PyInt(101)]
                @@ ("if-admin-status" :> PyStr(<<"down">>))),
     PyDict([deviceId |-> PyStr(<<"d2">>), interface |-> PyStr(<<"ge0/0">>),
             rx_octets |-> PyInt(100), tx_octets |-> PyInt(90000000),
             tx_errors |-> PyInt(100)]
                @@ ("if-admin-status" :> PyStr(<<"up">>))),
     PyDict([interface |-> PyStr(<<"lo0">>)]),
     PyDict([deviceId |-> PyStr(<<"d2">>), rx_octets |-> PyNone])}

InterfacePayloads ==
    {PyList(l) : l \in ListsOf(Interfaces, MaxInterfaces)} \cup {PyList(<<PyInt(1)>>)}

\* The metric arguments tried: the five of the tool's schema
\* (main.py:172) and one outside it.
Metrics == {"rx_bytes", "tx_bytes", "total_bytes", "rx_packets", "tx_packets", "speed"}

\* main.py:617: the metrics the list is sorted by.
SortMetrics == {"rx_bytes", "tx_bytes", "total_bytes", "rx_packets", "tx_packets"}

\* int(x) of a counter: the number itself, TypeError for null.  (The
\* counters here are numbers or null, not numerals in a str.)
PyIntOf(x) ==
    IF x.t = "int" THEN Return(x)
    ELSE Raise("TypeError", "int() argument must be a string, a bytes-like object or a real number")

\* The counters main.py:603-608 converts, in that order.
CounterKeys == <<"rx_octets", "tx_octets", "rx_pkts", "tx_pkts", "rx_errors", "tx_errors">>

\* main.py:600-609: what the loop body raises on an interface, if anything.
InterfaceRaise(interface) ==
    IF NotDict(interface) THEN NoGet(interface)
    ELSE LET converted == [k \in 1..Len(CounterKeys) |->
                              PyIntOf(Get(interface, CounterKeys[k], PyInt(0)))]
             raising == FirstRaising(converted, LAMBDA c : c.raised)
         IN  IF raising # 0 THEN converted[raising] ELSE Return(PyNone)

\* main.py:600-612.
InterfaceData(interface) ==
    LET counter(key) == Get(interface, key, PyInt(0))
    IN  PyDict([device_id |-> Get(interface, "deviceId", PyStr(StrUnknown)),
                interface_name |-> Get(interface, "interface", PyStr(StrUnknown)),
                rx_bytes |-> counter("rx_octets"),
                tx_bytes |-> counter("tx_octets"),
                rx_packets |-> counter("rx_pkts"),
                tx_packets |-> counter("tx_pkts"),
                rx_errors |-> counter("rx_errors"),
                tx_errors |-> counter("tx_errors"),
                total_bytes |-> PyInt(counter("rx_octets").int + counter("tx_octets").int)])

\* Mutant: the sort is not stable; an entry goes before the entries of
\* equal metric.
RECURSIVE SortDescending_unstable(_, _)
SortDescending_unstable(l, metric) ==
    IF Len(l) = 0 THEN <<>>
    ELSE LET before == SortDescending_unstable(SubSeq(l, 1, Len(l) - 1), metric)
             x == l[Len(l)]
             k == Cardinality({i \in 1..Len(before) :
                                  before[i].dict[metric].int > x.dict[metric].int})
         IN  SubSeq(before, 1, k) \o <<x>> \o SubSeq(before, k + 1, Len(before))

\* main.py:618: list.sort(key=lambda x: x[metric], reverse=True), a stable
\* sort: each entry goes after the entries before it whose metric is not
\* smaller.
RECURSIVE SortDescending(_, _)
SortDescending(l, metric) ==
    IF Len(l) = 0 THEN <<>>
    ELSE LET before == SortDescending(SubSeq(l, 1, Len(l) - 1), metric)
             x == l[Len(l)]
             k == Cardinality({i \in 1..Len(before) :
                                  before[i].dict[metric].int >= x.dict[metric].int})
         IN  SubSeq(before, 1, k) \o <<x>> \o SubSeq(before, k + 1, Len(before))

\* l[:limit], main.py:621: the first limit items, or all but the last
\* -limit for a negative limit.
SliceTo(l, limit) ==
    IF limit >= 0 THEN SubSeq(l, 1, Min(limit, Len(l)))
    ELSE SubSeq(l, 1, IF Len(l) + limit > 0 THEN Len(l) + limit ELSE 0)

\* main.py:591-631.
_get_top_interfaces_by_traffic(limit, metric, upstream) ==
    LET interfaces == upstream.interfaces.value
        what == "get top interfaces"
        result(total, top_interfaces) ==
            Return(PyDict([metric |-> PyStr(<<metric>>),
                           limit |-> PyInt(limit),
                           total_interfaces |-> PyInt(total),
                           top_interfaces |-> PyList(top_interfaces)]))
    IN  [fetches |-> <<FetchEvent(Endpoint("get_interface_statistics"))>>,
         outcome |->
            IF upstream.interfaces.raised THEN FailedTo(what, upstream.interfaces)
            ELSE IF ~IsList(interfaces) THEN result(0, <<>>)
            ELSE LET raising == FirstRaising(interfaces.list,
                                             LAMBDA i : InterfaceRaise(i).raised)
                     data == [i \in 1..Len(interfaces.list) |->
                                 InterfaceData(interfaces.list[i])]
                 IN  IF raising # 0
                     THEN FailedTo(what, InterfaceRaise(interfaces.list[raising]))
                     ELSE result(Len(interfaces.list),
                                 SliceTo(IF metric \in SortMetrics
                                         THEN SortDescending(data, metric)
                                         ELSE data,
                                         limit))]

\* --------------------------------------- _check_bfd_session_health

\* Devices as the fan-out operations see them: with a deviceId, without one.
FanOutDevices ==
    {PyDict([deviceId |-> PyStr(<<"d1">>), reachability |-> PyStr(StrReachable),
             status |-> PyStr(StrNormal), deviceType |-> PyStr(<<"vedge">>),
             version |-> PyStr(<<"20.3">>)]),
     PyDict([deviceId |-> PyStr(<<"d2">>), reachability |-> PyStr(StrUnreachable),
             status |-> PyStr(StrNormal), deviceType |-> PyStr(<<"vsmart">>)]),
     PyDict([hostname |-> PyStr(<<"h5">>), reachability |-> PyStr(StrReachable),
             status |-> PyStr(StrNormal)])}

FanOutPayloads ==
    {PyList(l) : l \in ListsOf(FanOutDevices, MaxDevices)} \cup {PyList(<<PyInt(1)>>)}

\* BFD sessions as /dataservice/device/bfd/sessions lists them: up, up in
\* other letter case, down, without a state, with a null state.
Sessions ==
    {PyDict([sessionId |-> PyStr(<<"s1">>), state |-> PyStr(StrUp)]),
     PyDict([sessionId |-> PyStr(<<"s2">>), state |-> PyStr(<<"U", "p">>)]),
     PyDict([sessionId |-> PyStr(<<"s3">>), state |-> PyStr(StrDown)]),
     PyDict([sessionId |-> PyStr(<<"s4">>)]),
     PyDict([sessionId |-> PyStr(<<"s5">>), state |-> PyNone])}

SessionPayloads == {PyList(l) : l \in ListsOf(Sessions, MaxSessions)}

\* What a per-device fetch can yield without a list: an envelope error, or
\* an exception.
FailedSubFetches ==
    {Unwrap(Answer200("<html>")), TransportError("ConnectionError")}

\* What the fetch of one device's BFD sessions can yield.
SessionOutcomes == {Return(d) : d \in SessionPayloads} \cup FailedSubFetches

\* What a per-device fetch yields where few items are listed: a list of at
\* most one item, or a failure.
ShortFanOut(items) ==
    {Return(PyList(l)) : l \in ListsOf(items, 1)} \cup FailedSubFetches

\* bool(device.get("deviceId")), main.py:648-649.
HasDeviceId(device) == Truthy(GetOrNone(device, "deviceId"))

\* The device ids a fan-out over a fetch of the devices asks the controller
\* about.
IdsOf(devices) ==
    IF devices.raised \/ ~IsList(devices.value) THEN {}
    ELSE {devices.value.list[i].dict.deviceId.str[1] :
             i \in {j \in 1..Len(devices.value.list) :
                       /\ devices.value.list[j].t = "dict"
                       /\ HasDeviceId(devices.value.list[j])}}

\* What the controller yields per device id: any of the outcomes for device
\* d1, one of the others' for every other device.
FanOuts(devices, outcomes, others) ==
    {first @@ rest : first \in [IdsOf(devices) \cap {"d1"} -> outcomes],
                     rest \in [IdsOf(devices) \ {"d1"} -> others]}

\* main.py:661: what the loop body raises on a session, if anything.
SessionRaise(session) ==
    IF NotDict(session) THEN NoGet(session)
    ELSE IF Get(session, "state", PyStr(<<>>)).t # "str"
    THEN NoLower(Get(session, "state", PyStr(<<>>)))
    ELSE Return(PyNone)

\* main.py:661-662: the session counts as active.
IsActive(session) == Lower(Get(session, "state", PyStr(<<>>)).str) = StrUp

\* main.py:668-675.
SessionDetail(device_id, session) ==
    PyDict([device_id |-> device_id,
            session_id |-> GetOrNone(session, "sessionId"),
            state |-> GetOrNone(session, "state"),
            local_address |-> GetOrNone(session, "localAddress"),
            remote_address |-> GetOrNone(session, "remoteAddress"),
            interface |-> GetOrNone(session, "interface")])

NoBfd == [checked |-> 0, with_bfd |-> 0, total |-> 0, active |-> 0, inactive |-> 0,
          details |-> <<>>]

\* main.py:648-678: what one device adds to the summary.  The device is
\* counted as checked before its sessions are fetched; an exception of the
\* fetch, or of the loop over the sessions, ends the device there.
BfdOfDevice(device, upstream) ==
    IF ~HasDeviceId(device) THEN NoBfd
    ELSE LET device_id == GetOrNone(device, "deviceId")
             bfd_sessions == upstream.bfd[device_id.str[1]]
         IN  IF bfd_sessions.raised THEN [NoBfd EXCEPT !.checked = 1]
             ELSE IF ~(IsList(bfd_sessions.value) /\ Len(bfd_sessions.value.list) > 0)
             THEN [NoBfd EXCEPT !.checked = 1]
             ELSE LET sessions == bfd_sessions.value.list
                      raising == FirstRaising(sessions, LAMBDA x : SessionRaise(x).raised)
                      counted == SubSeq(sessions, 1,
                                        IF raising = 0 THEN Len(sessions) ELSE raising - 1)
                  IN  [checked |-> 1,
                       with_bfd |-> 1,
                       total |-> Len(sessions),
                       active |-> CountOf(counted, IsActive),
                       inactive |-> Len(counted) - CountOf(counted, IsActive),
                       details |-> [i \in 1..Len(counted) |->
                                       SessionDetail(device_id, counted[i])]]

\* main.py:647-678: the loop over the devices.
RECURSIVE BfdOfDevices(_, _)
BfdOfDevices(devices, upstream) ==
    IF Len(devices) = 0 THEN NoBfd
    ELSE LET before == BfdOfDevices(SubSeq(devices, 1, Len(devices) - 1), upstream)
             this == BfdOfDevice(devices[Len(devices)], upstream)
         IN  [checked |-> before.checked + this.checked,
              with_bfd |-> before.with_bfd + this.with_bfd,
              total |-> before.total + this.total,
              active |-> before.active + this.active,
              inactive |-> before.inactive + this.inactive,
              details |-> before.details \o this.details]

\* The per-device fetches a fan-out makes over the first n devices.
RECURSIVE FanOutFetches(_, _, _)
FanOutFetches(tool, devices, n) ==
    IF n = 0 THEN <<>>
    ELSE FanOutFetches(tool, devices, n - 1)
            \o (IF HasDeviceId(devices[n])
                THEN <<FetchEvent(DeviceEndpoint(tool, GetOrNone(devices[n], "deviceId")))>>
                ELSE <<>>)

\* main.py:633-683.
_check_bfd_session_health(include_details, upstream) ==
    LET devices == upstream.devices.value
        what == "check BFD session health"
        fetch == <<FetchEvent(Endpoint("get_fabric_devices"))>>
        summary(bfd) ==
            Return(PyDict([total_devices_checked |-> PyInt(bfd.checked),
                           devices_with_bfd |-> PyInt(bfd.with_bfd),
                           total_bfd_sessions |-> PyInt(bfd.total),
                           active_sessions |-> PyInt(bfd.active),
                           inactive_sessions |-> PyInt(bfd.inactive),
                           session_details |-> IF include_details
                                               THEN PyList(bfd.details) ELSE PyNone]))
    IN  IF upstream.devices.raised
        THEN [fetches |-> fetch, outcome |-> FailedTo(what, upstream.devices)]
        ELSE IF ~IsList(devices)
        THEN [fetches |-> fetch, outcome |-> summary(NoBfd)]
        ELSE LET raising == FirstRaising(devices.list, NotDict)
             IN  IF raising # 0
                 THEN [fetches |-> fetch \o FanOutFetches("get_bfd_sessions",
                                                          devices.list, raising - 1),
                       outcome |-> FailedTo(what, NoGet(devices.list[raising]))]
                 ELSE [fetches |-> fetch \o FanOutFetches("get_bfd_sessions",
                                                          devices.list, Len(devices.list)),
                       outcome |-> summary(BfdOfDevices(devices.list, upstream))]

\* ------------------------------------------------ _get_device_alerts

\* The severity arguments tried: the four of the tool's schema
\* (main.py:228) and one outside it.
Severities == {"critical", "warning", "info", "all", "Critical"}

\* main.py:792-811: what the loop body raises on a device, if anything.
AlertRaise(device) ==
    IF NotDict(device) THEN NoGet(device)
    ELSE IF /\ GetOrNone(device, "status") # PyStr(StrNormal)
            /\ Get(device, "status", PyStr(<<>>)).t # "str"
    THEN NoLower(Get(device, "status", PyStr(<<>>)))
    ELSE Return(PyNone)

\* main.py:797-803, 812-818.
Alert(device, severity, message) ==
    PyDict([device_id |-> GetOrNone(device, "deviceId"),
            hostname |-> Get(device, "hostname", PyStr(StrUnknown)),
            severity |-> PyStr(<<severity>>),
            message |-> PyStr(message),
            timestamp |-> Get(device, "lastupdated", PyStr(StrUnknown))])

\* main.py:811: the severity of a status alert.
StatusSeverity(device) ==
    IF IsSubstring(StrWarning, Lower(Get(device, "status", PyStr(<<>>)).str))
    THEN "warning" ELSE "info"

\* Mutant: the alert is appended whatever severity was asked for; only the
\* tally looks at it.
AlertsOfDevice_unfiltered(device, severity) ==
    (IF GetOrNone(device, "reachability") = PyStr(StrUnreachable)
     THEN <<Alert(device, "critical", <<"Device is unreachable">>)>>
     ELSE <<>>)
    \o (IF GetOrNone(device, "status") # PyStr(StrNormal)
        THEN <<Alert(device, StatusSeverity(device),
                     <<"Device status: ">> \o PyStrOf(GetOrNone(device, "status")))>>
        ELSE <<>>)

\* main.py:795-825: the alerts one device adds for the severity asked for.
AlertsOfDevice(device, severity) ==
    (IF /\ GetOrNone(device, "reachability") = PyStr(StrUnreachable)
        /\ severity \in {"all", "critical"}
     THEN <<Alert(device, "critical", <<"Device is unreachable">>)>>
     ELSE <<>>)
    \o (IF /\ GetOrNone(device, "status") # PyStr(StrNormal)
           /\ severity \in {"all", StatusSeverity(device)}
        THEN <<Alert(device, StatusSeverity(device),
                     <<"Device status: ">> \o PyStrOf(GetOrNone(device, "status")))>>
        ELSE <<>>)

\* main.py:790-825: the loop over the devices.
RECURSIVE AlertsOfDevices(_, _)
AlertsOfDevices(devices, severity) ==
    IF Len(devices) = 0 THEN <<>>
    ELSE AlertsOfDevices(SubSeq(devices, 1, Len(devices) - 1), severity)
            \o AlertsOfDevice(devices[Len(devices)], severity)

\* main.py:775-831.  The tallies are incremented where an alert is
\* appended (main.py:805-807, 820-825).
_get_device_alerts(severity, upstream) ==
    LET fetched == <<upstream.devices, upstream.monitor>>
        raising == FirstRaising(fetched, LAMBDA o : o.raised)
        what == "get device alerts"
        devices == upstream.devices.value
        result(alerts) ==
            LET with(s) == CountOf(alerts, LAMBDA a : a.dict.severity = PyStr(<<s>>))
            IN  Return(PyDict([severity_filter |-> PyStr(<<severity>>),
                               total_alerts |-> PyInt(Len(alerts)),
                               critical_alerts |-> PyInt(with("critical")),
                               warning_alerts |-> PyInt(with("warning")),
                               info_alerts |-> PyInt(with("info")),
                               alerts |-> PyList(alerts)]))
    IN  [fetches |-> FetchesUntilRaise(<<Endpoint("get_fabric_devices"),
                                         Endpoint("get_device_monitor")>>, fetched),
         outcome |->
            IF raising # 0 THEN FailedTo(what, fetched[raising])
            ELSE IF ~IsList(devices) THEN result(<<>>)
            ELSE LET bad == FirstRaising(devices.list, LAMBDA d : AlertRaise(d).raised)
                 IN  IF bad # 0 THEN FailedTo(what, AlertRaise(devices.list[bad]))
                     ELSE result(AlertsOfDevices(devices.list, severity))]

\* ------------------------------------ _monitor_interface_utilization

\* The threshold arguments tried (percent).
Thresholds == {0, 80, 100}

\* A float the operation reports, in hundredths (it is rounded to two
\* places, main.py:866, 873).
PyFloat(hundredths) == [t |-> "float", hundredths |-> hundredths]

\* round(x, 2) of x millionths: to the nearest hundredth.
Round2(millionths) == (millionths + 5000) \div 10000

\* main.py:853-857: min(((rx_bytes + tx_bytes) / 1000000) % 100, 100), in
\* millionths of a percent.
MockUtilization(interface) ==
    (Get(interface, "rx_octets", PyInt(0)).int
        + Get(interface, "tx_octets", PyInt(0)).int) % 100000000

\* main.py:853-854: what the loop body raises on an interface, if anything.
UtilizationRaise(interface) ==
    IF NotDict(interface) THEN NoGet(interface)
    ELSE IF PyIntOf(Get(interface, "rx_octets", PyInt(0))).raised
    THEN PyIntOf(Get(interface, "rx_octets", PyInt(0)))
    ELSE IF PyIntOf(Get(interface, "tx_octets", PyInt(0))).raised
    THEN PyIntOf(Get(interface, "tx_octets", PyInt(0)))
    ELSE Return(PyNone)

\* main.py:863-870.
OverThreshold(interface) ==
    PyDict([device_id |-> GetOrNone(interface, "deviceId"),
            interface |-> GetOrNone(interface, "interface"),
            utilization_percent |-> PyFloat(Round2(MockUtilization(interface))),
            rx_bytes |-> Get(interface, "rx_octets", PyInt(0)),
            tx_bytes |-> Get(interface, "tx_octets", PyInt(0)),
            status |-> GetOrNone(interface, "if-admin-status")])

\* The sum of the utilization of the interfaces of a list.
RECURSIVE TotalUtilization(_)
TotalUtilization(interfaces) ==
    IF Len(interfaces) = 0 THEN 0
    ELSE TotalUtilization(SubSeq(interfaces, 1, Len(interfaces) - 1))
            + MockUtilization(interfaces[Len(interfaces)])

\* main.py:833-878.
_monitor_interface_utilization(threshold, upstream) ==
    LET interfaces == upstream.interfaces.value
        what == "monitor interface utilization"
        report(l) ==
            LET over == {i \in 1..Len(l) : MockUtilization(l[i]) > threshold * 1000000}
            IN  Return(PyDict(
                   [threshold_percent |-> PyInt(threshold),
                    total_interfaces |-> PyInt(Len(l)),
                    high_utilization_interfaces |-> PyInt(Cardinality(over)),
                    interfaces_over_threshold |->
                        PyList(Filtered([i \in 1..Len(l) |-> OverThreshold(l[i])], over)),
                    average_utilization |->
                        IF Len(l) > 0
                        THEN PyFloat(Round2(TotalUtilization(l) \div Len(l)))
                        ELSE PyInt(0)]))
    IN  [fetches |-> <<FetchEvent(Endpoint("get_interface_statistics"))>>,
         outcome |->
            IF upstream.interfaces.raised THEN FailedTo(what, upstream.interfaces)
            ELSE IF ~IsList(interfaces) THEN report(<<>>)
            ELSE LET bad == FirstRaising(interfaces.list,
                                         LAMBDA i : UtilizationRaise(i).raised)
                 IN  IF bad # 0 THEN FailedTo(what, UtilizationRaise(interfaces.list[bad]))
                     ELSE report(interfaces.list)]

\* ---------------------------------------------- _get_network_topology

\* A dict key for a text: the text itself, "None" for None.
KeyOf(x) == IF x.t = "str" /\ Len(x.str) = 1 THEN x.str[1] ELSE "None"

\* main.py:710-718, 912-914: the tally of a field over the devices;
\* "unknown" where the field is missing.
Tally(devices, field) ==
    LET key(device) == KeyOf(Get(device, field, PyStr(<<"unknown">>)))
        keys == {key(devices[i]) : i \in 1..Len(devices)}
    IN  PyDict([k \in keys |-> PyInt(CountOf(devices, LAMBDA d : key(d) = k))])

\* main.py:926-930.
NodeInterface(interface) ==
    PyDict([interface |-> GetOrNone(interface, "interface"),
            status |-> GetOrNone(interface, "if-admin-status"),
            ip_address |-> GetOrNone(interface, "ip-address")])

\* main.py:921-930: the interfaces grouped under a device id.
InterfacesOf(device_id, interfaces) ==
    Filtered([i \in 1..Len(interfaces) |-> NodeInterface(interfaces[i])],
             {i \in 1..Len(interfaces) :
                 /\ Truthy(GetOrNone(interfaces[i], "deviceId"))
                 /\ GetOrNone(interfaces[i], "deviceId") = device_id})

\* Mutant: every node carries the list, an empty one where no interface
\* matches.
Node_always_listed(device, interfaces) ==
    LET node == [device_id |-> GetOrNone(device, "deviceId"),
                 hostname |-> GetOrNone(device, "hostname"),
                 device_type |-> GetOrNone(device, "deviceType"),
                 status |-> GetOrNone(device, "reachability"),
                 site_id |-> GetOrNone(device, "site-id"),
                 system_ip |-> GetOrNone(device, "system-ip"),
                 version |-> GetOrNone(device, "version")]
    IN  PyDict(node @@ ("interfaces" :> PyList(InterfacesOf(node.device_id, interfaces))))

\* main.py:900-908, 933-936: the node of a device, with its interfaces
\* where some interface carries the device's id.
Node(device, interfaces) ==
    LET node == [device_id |-> GetOrNone(device, "deviceId"),
                 hostname |-> GetOrNone(device, "hostname"),
                 device_type |-> GetOrNone(device, "deviceType"),
                 status |-> GetOrNone(device, "reachability"),
                 site_id |-> GetOrNone(device, "site-id"),
                 system_ip |-> GetOrNone(device, "system-ip"),
                 version |-> GetOrNone(device, "version")]
        own == InterfacesOf(node.device_id, interfaces)
    IN  IF Len(own) > 0
        THEN PyDict(node @@ ("interfaces" :> PyList(own)))
        ELSE PyDict(node)

\* main.py:880-941.
_get_network_topology(upstream) ==
    LET fetched == <<upstream.devices, upstream.interfaces>>
        raising == FirstRaising(fetched, LAMBDA o : o.raised)
        what == "get network topology"
        devices == IF IsList(upstream.devices.value)
                   THEN upstream.devices.value.list ELSE <<>>
        interfaces == IF IsList(upstream.interfaces.value)
                      THEN upstream.interfaces.value.list ELSE <<>>
    IN  [fetches |-> FetchesUntilRaise(<<Endpoint("get_fabric_devices"),
                                         Endpoint("get_interface_statistics")>>, fetched),
         outcome |->
            IF raising # 0 THEN FailedTo(what, fetched[raising])
            ELSE IF FirstRaising(devices, NotDict) # 0
            THEN FailedTo(what, NoGet(devices[FirstRaising(devices, NotDict)]))
            ELSE IF FirstRaising(interfaces, NotDict) # 0
            THEN FailedTo(what, NoGet(interfaces[FirstRaising(interfaces, NotDict)]))
            ELSE Return(PyDict(
                    [nodes |-> PyList([i \in 1..Len(devices) |->
                                          Node(devices[i], interfaces)]),
                     connections |-> PyList(<<>>),
                     network_summary |->
                        PyDict([total_devices |-> PyInt(Len(devices)),
                                total_interfaces |-> PyInt(Len(interfaces)),
                                device_types |-> Tally(devices, "deviceType")])]))]

\* -------------------------------------------- _generate_network_report

\* Tunnels as /dataservice/device/tunnel/statistics lists them: up, down,
\* and an item that is no object.
Tunnels ==
    {PyDict([state |-> PyStr(StrUp)]), PyDict([state |-> PyStr(StrDown)]), PyInt(1)}

\* The BFD sessions the report meets: up, down, with a null state.
ReportSessions ==
    {session \in Sessions :
        GetOrNone(session, "state") \in {PyStr(StrUp), PyStr(StrDown), PyNone}}

\* What the fetch of the interfaces yields to the report.
ReportInterfaces ==
    ShortFanOut(Interfaces) \cup {Return(PyList(<<PyInt(1)>>))}

\* What a later fetch of the device list yields within one report: what the
\* first one did, an envelope error, or an exception.
Again(devices) == {devices} \cup FailedSubFetches

\* The empty dict, main.py:690-694.
EmptyDict == PyDict(<<>>)

\* main.py:692-694: a section before it is filled.
Section_empty(include) == EmptyDict

Section(include) == IF include THEN EmptyDict ELSE PyNone

\* main.py:703-718.
DeviceSummary(devices) ==
    PyDict([total_devices |-> PyInt(Len(devices)),
            device_types |-> Tally(devices, "deviceType"),
            software_versions |-> Tally(devices, "version")])

\* main.py:727-728: the interface counts as one with a high error rate.
HighError(interface) ==
    \/ Get(interface, "rx_errors", PyInt(0)).int > 100
    \/ Get(interface, "tx_errors", PyInt(0)).int > 100

\* main.py:727-728: what the test raises on an interface, if anything; the
\* tx counter is converted only when the rx counter is not over 100.
HighErrorRaise(interface) ==
    IF PyIntOf(Get(interface, "rx_errors", PyInt(0))).raised
    THEN PyIntOf(Get(interface, "rx_errors", PyInt(0)))
    ELSE IF /\ Get(interface, "rx_errors", PyInt(0)).int <= 100
            /\ PyIntOf(Get(interface, "tx_errors", PyInt(0))).raised
    THEN PyIntOf(Get(interface, "tx_errors", PyInt(0)))
    ELSE Return(PyNone)

\* main.py:723-729.
InterfaceSummary(interfaces) ==
    PyDict([total_interfaces |-> PyInt(Len(interfaces)),
            active_interfaces |->
                PyInt(CountOf(interfaces,
                              LAMBDA i : GetOrNone(i, "if-admin-status") = PyStr(<<"up">>))),
            high_error_interfaces |-> PyInt(CountOf(interfaces, HighError))])

\* main.py:738-747: the tunnels the fan-out over the devices collects; a
\* fetch that raises, or yields no list, adds none.
RECURSIVE TunnelStats(_, _)
TunnelStats(devices, tunnels) ==
    IF Len(devices) = 0 THEN <<>>
    ELSE LET device == devices[Len(devices)]
             before == TunnelStats(SubSeq(devices, 1, Len(devices) - 1), tunnels)
         IN  IF ~HasDeviceId(device) THEN before
             ELSE LET tunnel_data == tunnels[GetOrNone(device, "deviceId").str[1]]
                  IN  IF ~tunnel_data.raised /\ IsList(tunnel_data.value)
                      THEN before \o tunnel_data.value.list
                      ELSE before

\* main.py:749-752.
TunnelSummary(tunnel_stats) ==
    PyDict([total_tunnels |-> PyInt(Len(tunnel_stats)),
            active_tunnels |->
                PyInt(CountOf(tunnel_stats,
                              LAMBDA t : GetOrNone(t, "state") = PyStr(StrUp)))])

\* The texts of the recommendations, main.py:757-766 (without the sign
\* each starts with).
ConnectivityWarning == PyStr(<<"Some devices are unreachable - check network connectivity">>)
ErrorWarning ==
    PyStr(<<"Some interfaces have high error rates - investigate potential issues">>)
PathWarning == PyStr(<<"Some BFD sessions are inactive - verify network paths">>)
OperatingNormally == PyStr(<<"Network appears to be operating normally">>)

\* d.get(key, 0) > 0 of a section, main.py:756-762.
Positive(section, key) == Get(section, key, PyInt(0)).int > 0

\* Mutant: the closing message is appended whatever was found.
Recommendations_always_normal(include_interfaces, include_bfd, report) ==
    (IF Positive(report.network_overview, "devices_down")
     THEN <<ConnectivityWarning>> ELSE <<>>)
    \o (IF include_interfaces /\ Positive(report.interface_summary, "high_error_interfaces")
        THEN <<ErrorWarning>> ELSE <<>>)
    \o (IF include_bfd /\ Positive(report.bfd_summary, "inactive_sessions")
        THEN <<PathWarning>> ELSE <<>>)
    \o <<OperatingNormally>>

\* Mutant: a report made after time 1 gives one more recommendation.
Recommendations_by_time(include_interfaces, include_bfd, report) ==
    (IF Positive(report.network_overview, "devices_down")
     THEN <<ConnectivityWarning>> ELSE <<>>)
    \o (IF report.report_timestamp.hundredths > 1
        THEN <<OperatingNormally>> ELSE <<>>)

\* main.py:754-766.
Recommendations(include_interfaces, include_bfd, report) ==
    LET warnings ==
            (IF Positive(report.network_overview, "devices_down")
             THEN <<ConnectivityWarning>> ELSE <<>>)
            \o (IF /\ include_interfaces
                   /\ Positive(report.interface_summary, "high_error_interfaces")
                THEN <<ErrorWarning>> ELSE <<>>)
            \o (IF include_bfd /\ Positive(report.bfd_summary, "inactive_sessions")
                THEN <<PathWarning>> ELSE <<>>)
    IN  IF Len(warnings) = 0 THEN <<OperatingNormally>> ELSE warnings

\* A step of the report: the fetches it makes and what it raises, if
\* anything.
Step(fetches, raised) == [fetches |-> fetches, raised |-> raised]

\* The fetches of the steps up to the first that raises.
RECURSIVE FetchesOfSteps(_)
FetchesOfSteps(steps) ==
    IF Len(steps) = 0 THEN <<>>
    ELSE steps[1].fetches
            \o (IF steps[1].raised.raised THEN <<>> ELSE FetchesOfSteps(Tail(steps)))

\* main.py:685-773.  The device list is fetched by the health summary,
\* again for the device summary and the tunnels (main.py:702), and again by
\* the BFD check.  time: what the event loop's clock reads at the call
\* (main.py:689).
_generate_network_report(include_interfaces, include_bfd, include_tunnels, upstream, time) ==
    LET what == "generate network report"
        none == Return(PyNone)
        overview == _get_device_health_summary(upstream)
        fetched == upstream.again[1]
        devices == IF ~fetched.raised /\ IsList(fetched.value)
                   THEN fetched.value.list ELSE <<>>
        counted == Step(<<FetchEvent(Endpoint("get_fabric_devices"))>>,
                        IF fetched.raised THEN fetched
                        ELSE IF FirstRaising(devices, NotDict) # 0
                        THEN NoGet(devices[FirstRaising(devices, NotDict)])
                        ELSE none)
        device_summary == IF IsList(fetched.value) THEN DeviceSummary(devices)
                          ELSE EmptyDict
        interfaces == upstream.interfaces
        listed == IF ~interfaces.raised /\ IsList(interfaces.value)
                  THEN interfaces.value.list ELSE <<>>
        measured ==
            IF ~include_interfaces THEN Step(<<>>, none)
            ELSE Step(<<FetchEvent(Endpoint("get_interface_statistics"))>>,
                      IF interfaces.raised THEN interfaces
                      ELSE IF FirstRaising(listed, NotDict) # 0
                      THEN NoGet(listed[FirstRaising(listed, NotDict)])
                      ELSE LET bad == FirstRaising(listed,
                                                   LAMBDA i : HighErrorRaise(i).raised)
                           IN  IF bad # 0 THEN HighErrorRaise(listed[bad]) ELSE none)
        interface_summary ==
            IF include_interfaces /\ IsList(interfaces.value)
            THEN InterfaceSummary(listed) ELSE Section(include_interfaces)
        bfd == _check_bfd_session_health(FALSE,
                                         [upstream EXCEPT !.devices = upstream.again[2]])
        checked == IF include_bfd THEN Step(bfd.fetches, none) ELSE Step(<<>>, none)
        bfd_summary == IF include_bfd THEN bfd.outcome.value ELSE Section(include_bfd)
        reached == IF counted.raised.raised THEN <<>> ELSE devices
        tunnel_stats == TunnelStats(reached, upstream.tunnels)
        tunnelled ==
            IF ~include_tunnels THEN Step(<<>>, none)
            ELSE Step(FanOutFetches("get_tunnel_statistics", reached, Len(reached)),
                      IF FirstRaising(tunnel_stats, NotDict) # 0
                      THEN NoGet(tunnel_stats[FirstRaising(tunnel_stats, NotDict)])
                      ELSE none)
        tunnel_summary == IF include_tunnels THEN TunnelSummary(tunnel_stats)
                          ELSE Section(include_tunnels)
        steps == <<Step(overview.fetches, none), counted, measured, checked, tunnelled>>
        raising == FirstRaising(steps, LAMBDA step : step.raised.raised)
        report == [report_timestamp |-> PyFloat(time),
                   network_overview |-> overview.outcome.value,
                   device_summary |-> device_summary,
                   interface_summary |-> interface_summary,
                   bfd_summary |-> bfd_summary,
                   tunnel_summary |-> tunnel_summary]
    IN  [fetches |-> FetchesOfSteps(steps),
         outcome |->
            IF raising # 0 THEN FailedTo(what, steps[raising].raised)
            ELSE Return(PyDict(
                    report @@ [recommendations |->
                                  PyList(Recommendations(include_interfaces, include_bfd,
                                                         report))]))]

\* ------------------------------------------- aggregation: the actions

\* What the controller's endpoints yield during one operation.  bfd and
\* tunnels: per device id.
NoFanOut == [id \in {} |-> Return(PyList(<<>>))]

Snapshot(devices, monitor, counters, interfaces, bfd, tunnels) ==
    [devices |-> devices, monitor |-> monitor, counters |-> counters,
     interfaces |-> interfaces, bfd |-> bfd, tunnels |-> tunnels]

\* An invocation of an aggregation tool as the dispatcher receives it.
Invocation(tool, args, upstream) ==
    [tool |-> tool, url |-> <<>>, held |-> FALSE, args |-> args, upstream |-> upstream]

\* The dispatcher has received the invocation and nothing else.
Received(invocation) ==
    call = [p \in Procs |-> IF p = "p1" THEN invocation ELSE NoCall]

\* An endpoint the operation does not fetch.
Idle == Return(PyList(<<>>))

\* An aggregation tool returns: the dispatcher sends the reply
\* (main.py:324-350, 360-364).
Aggregated(p, tool, r) ==
    /\ pc[p] = "called"
    /\ call[p].tool = tool
    /\ ret' = [done |-> TRUE, proc |-> p, tool |-> tool, url |-> <<>>,
               held |-> call[p].held, log |-> r.fetches,
               final |-> NoResponse, outcome |-> r.outcome,
               reply |-> handle_call_tool(r.outcome),
               args |-> call[p].args, upstream |-> call[p].upstream,
               time |-> IF "time" \in DOMAIN call[p] THEN call[p].time ELSE 0]
    /\ pc' = [pc EXCEPT ![p] = "idle"]
    /\ call' = [call EXCEPT ![p] = NoCall]
    /\ auth' = NoAuth
    /\ UNCHANGED <<session_id, cookies, last_auth, log>>

\* Tool "get_device_health_summary" (main.py:324-325): what it may meet.
HealthSummaryCalled ==
    \E devices \in FetchOutcomes(DevicePayloads \cup FleetPayloads),
       monitor \in AuxOutcomes, counters \in AuxOutcomes :
        Received(Invocation("get_device_health_summary", [none |-> TRUE],
                            Snapshot(devices, monitor, counters, Idle, NoFanOut, NoFanOut)))

\* main.py:324-325, 498-556.
HealthSummaryReturns(p) ==
    Aggregated(p, "get_device_health_summary",
               _get_device_health_summary(call[p].upstream))

\* Tool "filter_devices_by_status" (main.py:326-330): what it may meet.
FilterCalled ==
    \E status \in Statuses, devices \in FetchOutcomes(DevicePayloads) :
        Received(Invocation("filter_devices_by_status", [status |-> status],
                            Snapshot(devices, Idle, Idle, Idle, NoFanOut, NoFanOut)))

\* main.py:326-330, 558-589.
FilterReturns(p) ==
    Aggregated(p, "filter_devices_by_status",
               _filter_devices_by_status(call[p].args.status, call[p].upstream))

\* Tool "get_top_interfaces_by_traffic" (main.py:331-334): what it may meet.
TopInterfacesCalled ==
    \E limit \in (-1)..(MaxInterfaces + 1), metric \in Metrics,
       interfaces \in FetchOutcomes(InterfacePayloads) :
        Received(Invocation("get_top_interfaces_by_traffic",
                            [limit |-> limit, metric |-> metric],
                            Snapshot(Idle, Idle, Idle, interfaces, NoFanOut, NoFanOut)))

\* main.py:331-334, 591-631.
TopInterfacesReturns(p) ==
    Aggregated(p, "get_top_interfaces_by_traffic",
               _get_top_interfaces_by_traffic(call[p].args.limit, call[p].args.metric,
                                              call[p].upstream))

\* Tool "check_bfd_session_health" (main.py:335-337): what it may meet.
BfdHealthCalled ==
    \E include_details \in BOOLEAN, devices \in FetchOutcomes(FanOutPayloads) :
        \E bfd \in FanOuts(devices, SessionOutcomes, ShortFanOut(Sessions)) :
            Received(Invocation("check_bfd_session_health",
                                [include_details |-> include_details],
                                Snapshot(devices, Idle, Idle, Idle, bfd, NoFanOut)))

\* main.py:335-337, 633-683.
BfdHealthReturns(p) ==
    Aggregated(p, "check_bfd_session_health",
               _check_bfd_session_health(call[p].args.include_details, call[p].upstream))

\* Tool "get_device_alerts" (main.py:343-345): what it may meet.
DeviceAlertsCalled ==
    \E severity \in Severities, devices \in FetchOutcomes(DevicePayloads),
       monitor \in AuxOutcomes :
        Received(Invocation("get_device_alerts", [severity |-> severity],
                            Snapshot(devices, monitor, Idle, Idle, NoFanOut, NoFanOut)))

\* main.py:343-345, 775-831.
DeviceAlertsReturns(p) ==
    Aggregated(p, "get_device_alerts",
               _get_device_alerts(call[p].args.severity, call[p].upstream))

\* Tool "monitor_interface_utilization" (main.py:346-348): what it may meet.
UtilizationCalled ==
    \E threshold \in Thresholds, interfaces \in FetchOutcomes(InterfacePayloads) :
        Received(Invocation("monitor_interface_utilization", [threshold |-> threshold],
                            Snapshot(Idle, Idle, Idle, interfaces, NoFanOut, NoFanOut)))

\* main.py:346-348, 833-878.
UtilizationReturns(p) ==
    Aggregated(p, "monitor_interface_utilization",
               _monitor_interface_utilization(call[p].args.threshold, call[p].upstream))

\* Tool "get_network_topology" (main.py:349-350): what it may meet.
TopologyCalled ==
    \E devices \in FetchOutcomes(FanOutPayloads),
       interfaces \in FetchOutcomes(InterfacePayloads) :
        Received(Invocation("get_network_topology", [none |-> TRUE],
                            Snapshot(devices, Idle, Idle, interfaces, NoFanOut, NoFanOut)))

\* main.py:349-350, 880-941.
TopologyReturns(p) ==
    Aggregated(p, "get_network_topology", _get_network_topology(call[p].upstream))

\* Tool "generate_network_report" (main.py:338-342): what it may meet.  A
\* section that is not included meets nothing; the clock reads 1.
NetworkReportCalled ==
    \E include_interfaces \in BOOLEAN, include_bfd \in BOOLEAN, include_tunnels \in BOOLEAN,
       devices \in FetchOutcomes(FanOutPayloads) :
        \E second \in Again(devices), third \in Again(devices),
           interfaces \in IF include_interfaces THEN ReportInterfaces ELSE {Idle} :
            \E bfd \in IF include_bfd
                        THEN FanOuts(third, ShortFanOut(ReportSessions), ShortFanOut({}))
                        ELSE {NoFanOut},
               tunnels \in IF include_tunnels
                            THEN FanOuts(second, ShortFanOut(Tunnels), ShortFanOut({}))
                            ELSE {NoFanOut} :
                Received(Invocation("generate_network_report",
                                    [include_interfaces |-> include_interfaces,
                                     include_bfd |-> include_bfd,
                                     include_tunnels |-> include_tunnels],
                                    Snapshot(devices, Idle, Idle, interfaces, bfd, tunnels)
                                        @@ [again |-> <<second, third>>])
                             @@ [time |-> 1])

\* main.py:338-342, 685-773.
NetworkReportReturns(p) ==
    Aggregated(p, "generate_network_report",
               _generate_network_report(call[p].args.include_interfaces,
                                        call[p].args.include_bfd,
                                        call[p].args.include_tunnels, call[p].upstream,
                                        call[p].time))

\* One invocation of an aggregation tool, received by the dispatcher of a
\* server just constructed (main.py:24-35), over what the controller yields
\* to its fetches.
InitAggregate ==
    /\ session_id = PyNone
    /\ cookies = NoCookie
    /\ last_auth = [latest |-> "none", token |-> PyNone]
    /\ pc = [p \in Procs |-> IF p = "p1" THEN "called" ELSE "idle"]
    /\ \/ HealthSummaryCalled
       \/ FilterCalled
       \/ TopInterfacesCalled
       \/ BfdHealthCalled
       \/ DeviceAlertsCalled
       \/ UtilizationCalled
       \/ TopologyCalled
       \/ NetworkReportCalled
    /\ log = [p \in Procs |-> <<>>]
    /\ auth = NoAuth
    /\ ret = NoRet

NextAggregate ==
    \/ \E p \in Procs : HealthSummaryReturns(p)
    \/ \E p \in Procs : FilterReturns(p)
    \/ \E p \in Procs : TopInterfacesReturns(p)
    \/ \E p \in Procs : BfdHealthReturns(p)
    \/ \E p \in Procs : DeviceAlertsReturns(p)
    \/ \E p \in Procs : UtilizationReturns(p)
    \/ \E p \in Procs : TopologyReturns(p)
    \/ \E p \in Procs : NetworkReportReturns(p)

SpecAggregate == InitAggregate /\ [][NextAggregate]_vars

\* ------------------------------------------------------------ claims

\* The places of the events of one kind in a call's log, and the first one.
Places(l, kind) == {i \in 1..Len(l) : l[i].e = kind}
FirstPlace(l, kind) == CHOOSE i \in Places(l, kind) : \A j \in Places(l, kind) : i <= j

\* The completed invocation is one _make_request (a pass-through tool).
FetchDone == ret.done /\ ret.tool \in FetchTools

\* An invocation of a pass-through tool is in flight at p.
FetchInFlight(p) == call[p].tool \in FetchTools

ErrorIs(outcome, msg) ==
    /\ ~outcome.raised
    /\ HasErrorKey(outcome.value)
    /\ outcome.value.dict.error = PyStr(<<msg>>)

\* C1: fetch never raises; every completed fetch returns a value, and after
\* a transport failure of the GET or a body that is not JSON that value is an
\* object with an "error" key.
C1_FetchNeverRaises ==
    FetchDone =>
        /\ ~ret.outcome.raised
        /\ (\/ Places(ret.log, "failure") # {}
            \/ (ret.final # NoResponse /\ json(ret.final.text).raised))
              => HasErrorKey(ret.outcome.value)

\* The call started without a token and its first authentication failed.
FailedFirstAuth(held, l) ==
    /\ ~held
    /\ Len(l) >= 1
    /\ l[1].e = "authenticate"
    /\ l[1].status = "error"

\* C2: a fetch that starts without a token and whose authentication fails
\* returns the "Authentication required..." error carrying the
\* authentication result, and issues no GET: none while the call is in
\* flight, none by the time it has returned.
C2_FailedFirstAuthStopsFetch ==
    /\ \A p \in Procs :
          (FetchInFlight(p) /\ FailedFirstAuth(call[p].held, log[p]))
              => Places(log[p], "GET") = {}
    /\ (FetchDone /\ FailedFirstAuth(ret.held, ret.log))
          => /\ ErrorIs(ret.outcome, "Authentication required. Please authenticate first.")
             /\ "auth_error" \in DOMAIN ret.outcome.value.dict
             /\ Places(ret.log, "GET") = {}

\* The first response of the logged call carries the expired-session signal.
FirstResponseExpired(l) ==
    /\ Places(l, "response") # {}
    /\ SessionExpired(l[FirstPlace(l, "response")])

\* The authentication logged after the first response failed.
FailedReAuth(l) ==
    /\ FirstResponseExpired(l)
    /\ Len(l) > FirstPlace(l, "response")
    /\ l[FirstPlace(l, "response") + 1].e = "authenticate"
    /\ l[FirstPlace(l, "response") + 1].status = "error"

\* C3: after an expired-session signal on the first GET, a failed
\* re-authentication makes fetch return the "Re-authentication failed" error
\* without a retried GET: the call's only GET is the first one, so a second
\* GET is seen only after a successful re-authentication.
C3_FailedReAuthStopsFetch ==
    /\ \A p \in Procs :
          (FetchInFlight(p) /\ FailedReAuth(log[p]))
              => Cardinality(Places(log[p], "GET")) = 1
    /\ (FetchDone /\ FailedReAuth(ret.log))
          => /\ ErrorIs(ret.outcome, "Re-authentication failed")
             /\ Cardinality(Places(ret.log, "GET")) = 1

\* The authentications logged before the first GET of a log.
AuthsBeforeFirstGet(l) ==
    {i \in Places(l, "authenticate") : i < FirstPlace(l, "GET")}

FirstGetAfterOneAuth(held, l) ==
    Places(l, "GET") # {} =>
        Cardinality(AuthsBeforeFirstGet(l)) = (IF held THEN 0 ELSE 1)

\* C4: when a fetch attempts its first GET, exactly one authentication has
\* been made before it if the call started without a token, and none if it
\* started with one.  Stated of every call in flight and every completed call.
C4_OneAuthBeforeFirstGet ==
    /\ \A p \in Procs : FetchInFlight(p) => FirstGetAfterOneAuth(call[p].held, log[p])
    /\ FetchDone => FirstGetAfterOneAuth(ret.held, ret.log)

C4_Witness ==
    /\ FetchDone
    /\ ~ret.held
    /\ Len(ret.log) >= 3
    /\ ret.log[1].e = "authenticate"
    /\ ret.log[2].e = "GET"
    /\ ~ret.outcome.raised

\* The first response of the logged call has status 401.
FirstResponse401(l) ==
    /\ Places(l, "response") # {}
    /\ l[FirstPlace(l, "response")].status_code = 401

\* The events logged after the first response.
AfterFirstResponse(l) == SubSeq(l, FirstPlace(l, "response") + 1, Len(l))

\* C5: in a fetch whose first GET returns 401, exactly one re-authentication
\* follows that GET and exactly one retried GET, to the same URL, follows the
\* re-authentication; no second retry.  A completed call has made exactly
\* these; a call in flight has made no more.
C5_OneReAuthOneRetry ==
    /\ (FetchDone /\ FirstResponse401(ret.log)) =>
          LET rest == AfterFirstResponse(ret.log)
          IN  /\ Len(rest) = 3
              /\ rest[1].e = "authenticate"
              /\ rest[2] = GetEvent(ret.log[FirstPlace(ret.log, "GET")].url)
              /\ rest[3].e \in {"response", "failure"}
    /\ \A p \in Procs : (FetchInFlight(p) /\ FirstResponse401(log[p])) =>
          LET rest == AfterFirstResponse(log[p])
          IN  /\ Cardinality(Places(rest, "authenticate")) <= 1
              /\ Cardinality(Places(rest, "GET")) <= 1
              /\ Cardinality(Places(log[p], "GET")) <= 2

C5_Witness ==
    /\ FetchDone
    /\ FirstResponse401(ret.log)
    /\ ret.held
    /\ Len(ret.log) = 5
    /\ ret.log[5].e = "response"

\* C6: the result of a fetch is decided by the final response's body alone:
\* the value of the "data" field of a JSON body that has one, the "Key 'data'
\* not found in response" error for any other JSON body, the "Response is not
\* in JSON format" error for a body that is not JSON.
C6_EnvelopeByBodyAlone ==
    (FetchDone /\ ret.final # NoResponse) =>
        LET body == json(ret.final.text)
        IN  IF body.raised
            THEN ErrorIs(ret.outcome, "Response is not in JSON format")
            ELSE IF body.value.t = "dict" /\ "data" \in DOMAIN body.value.dict
            THEN ret.outcome = Return(body.value.dict.data)
            ELSE ErrorIs(ret.outcome, "Key 'data' not found in response")

\* C7: _authenticate never raises, and a transport error of the login POST is
\* returned as a result of status "error" whose message carries the
\* exception's text.  Stated of every _authenticate call (direct or inside a
\* fetch) and of the reply of the authenticate tool.
C7_AuthenticateNeverRaises ==
    /\ auth.done =>
          /\ ~auth.outcome.raised
          /\ auth.post.failure # "" =>
                /\ auth.outcome.value.dict.status = PyStr(<<"error">>)
                /\ auth.outcome.value.dict.message =
                      PyStr(<<"Authentication exception: ">>
                                \o TransportError(auth.post.failure).value.str)
    /\ (ret.done /\ ret.tool = "authenticate") => ~ret.reply.is_error_text

C7_Witness ==
    /\ auth.done
    /\ auth.post.failure # ""
    /\ ret.done
    /\ ret.tool = "authenticate"

\* C8: a login POST answered 200 whose response supplies no session cookie
\* is reported as a failed authentication (status "error"), whatever token is
\* held.
C8_NoCookieMeansFailure ==
    (/\ auth.done
     /\ auth.post.failure = ""
     /\ auth.post.status_code = 200
     /\ auth.post.set_cookie.op = "none")
        => /\ ~auth.outcome.raised
           /\ auth.outcome.value.dict.status = PyStr(<<"error">>)

\* The token held, if any: None and the empty str both count as no token.
HeldToken(sid) == IF Truthy(sid) THEN sid ELSE PyNone

\* C9: the session token changes only in a step that completes a successful
\* authentication; a failed authentication, a GET, the unwrapping and
\* get_session_status leave it as it was.
C9_TokenChangesOnlyOnSuccess ==
    [][HeldToken(session_id)' # HeldToken(session_id)
          => (auth'.done /\ AuthStatus(auth'.outcome) = "success")]_vars

\* C10 as claimed: a held token implies that the most recent authentication
\* attempt succeeded.
C10_TokenImpliesLastAuthSucceeded ==
    Truthy(session_id) => last_auth.latest = "success"

\* C10 as amended: a held token is the token of the most recent successful
\* authentication attempt; an attempt that failed after it left the token
\* in place.
C10_TokenOfLastSuccess ==
    Truthy(session_id) => last_auth.token = session_id

C10_Witness ==
    /\ Truthy(session_id)
    /\ last_auth.latest = "error"
    /\ auth.done
    /\ auth.before = session_id

\* C11: when a fetch detects an expired-session signal the token is cleared
\* before the re-authentication is attempted: no token is held while the
\* re-authentication is in flight, and after a failed re-authentication no
\* token is held and get_session_status reports authenticated: false.
C11_TokenClearedOnExpiry ==
    /\ \A p \in Procs : pc[p] = "re_auth" => ~Truthy(session_id)
    /\ (FetchDone /\ FailedReAuth(ret.log)) =>
          /\ ~Truthy(session_id)
          /\ _get_session_status(session_id).value.dict.authenticated = PyBool(FALSE)

\* The invocations suspended inside _authenticate (at its login POST).
AuthInFlight == {p \in Procs : pc[p] \in {"authenticate", "pre_auth", "re_auth"}}

\* C12: when tool invocations overlap, at most one authentication attempt is
\* in flight at any time: the missing-token or expired-session signals seen
\* by concurrent fetches coalesce into one authentication, so no two
\* attempts are about to write the token.
C12_OneAuthenticationInFlight == Cardinality(AuthInFlight) <= 1

\* The completed invocation is the named aggregation tool.
Done(tool) == ret.done /\ ret.tool = tool

\* The fetch of an endpoint yielded a list all of whose items are objects.
ListOfObjects(outcome) ==
    /\ ~outcome.raised
    /\ outcome.value.t = "list"
    /\ \A i \in 1..Len(outcome.value.list) : outcome.value.list[i].t = "dict"

\* The field of an upstream object is this text, letter for letter.
FieldIs(object, key, text) ==
    key \in DOMAIN object.dict /\ object.dict[key] = PyStr(text)

\* The result is an object with these keys and no "error" key.
ResultWith(outcome, keys) ==
    /\ ~outcome.raised
    /\ outcome.value.t = "dict"
    /\ keys \subseteq DOMAIN outcome.value.dict
    /\ "error" \notin DOMAIN outcome.value.dict

\* overall_health for u devices up out of n.
HealthBucket(n, u) ==
    IF n = 0 THEN "unknown"
    ELSE IF (100 * u) \div n >= 95 THEN "excellent"
    ELSE IF (100 * u) \div n >= 80 THEN "good"
    ELSE IF (100 * u) \div n >= 60 THEN "fair"
    ELSE "poor"

\* The counts and the bucket of C14 hold of a completed HealthSummary.
HealthSummaryAsClaimed ==
    LET l == ret.upstream.devices.value.list
        n == Len(l)
        u == Cardinality({i \in 1..n : FieldIs(l[i], "reachability", StrReachable)})
    IN  /\ ResultWith(ret.outcome, {"total_devices", "devices_up", "devices_down",
                                    "overall_health"})
        /\ ret.outcome.value.dict.total_devices = PyInt(n)
        /\ ret.outcome.value.dict.devices_up = PyInt(u)
        /\ ret.outcome.value.dict.devices_down = PyInt(n - u)
        /\ ret.outcome.value.dict.overall_health = PyStr(<<HealthBucket(n, u)>>)

\* C14: for every fetched device list of n devices of which u have
\* reachability exactly "reachable", HealthSummary reports total_devices = n,
\* devices_up = u, devices_down = n - u and overall_health "unknown" for
\* n = 0, else "excellent" for 100u/n >= 95, "good" for >= 80, "fair" for
\* >= 60, otherwise "poor".
C14_HealthSummaryCounts ==
    (Done("get_device_health_summary") /\ ListOfObjects(ret.upstream.devices))
        => HealthSummaryAsClaimed

\* C14 where the two fetches HealthSummary makes after the device list
\* return as well (a fetch that does not raise, C1): the counts and the
\* bucket are as claimed.
C14_CountsWhenFetchesReturn ==
    (/\ Done("get_device_health_summary")
     /\ ListOfObjects(ret.upstream.devices)
     /\ ~ret.upstream.monitor.raised
     /\ ~ret.upstream.counters.raised)
        => HealthSummaryAsClaimed

\* The items of a list at the given places, in the list's order.
RECURSIVE AtPlaces(_, _)
AtPlaces(l, places) ==
    IF places = {} THEN <<>>
    ELSE LET last == CHOOSE i \in places : \A j \in places : j <= i
         IN  AtPlaces(l, places \ {last}) \o <<l[last]>>

\* A completed FilterByStatus returned exactly the devices at these places
\* of the fetched list, with the counts of C15.
FilterReturned(places) ==
    LET l == ret.upstream.devices.value.list
    IN  /\ ResultWith(ret.outcome, {"devices", "filtered_count", "total_devices"})
        /\ ret.outcome.value.dict.devices = PyList(AtPlaces(l, places))
        /\ ret.outcome.value.dict.filtered_count = PyInt(Cardinality(places))
        /\ ret.outcome.value.dict.total_devices = PyInt(Len(l))

\* The field of an upstream object is a text, or is missing.
TextOrMissing(object, key) ==
    key \in DOMAIN object.dict => object.dict[key].t = "str"

\* The fetch of the devices yielded a list of objects whose reachability and
\* status are texts or missing.
DeviceListFetched ==
    /\ ListOfObjects(ret.upstream.devices)
    /\ \A i \in 1..Len(ret.upstream.devices.value.list) :
          /\ TextOrMissing(ret.upstream.devices.value.list[i], "reachability")
          /\ TextOrMissing(ret.upstream.devices.value.list[i], "status")

FieldIsNoCase(object, key, text) ==
    /\ key \in DOMAIN object.dict
    /\ object.dict[key].t = "str"
    /\ Lower(object.dict[key].str) = text

Counter(interface, key) ==
    IF key \in DOMAIN interface.dict THEN interface.dict[key].int ELSE 0

\* The metric of an upstream interface.
MetricOf(interface, metric) ==
    CASE metric = "rx_bytes" -> Counter(interface, "rx_octets")
      [] metric = "tx_bytes" -> Counter(interface, "tx_octets")
      [] metric = "total_bytes" ->
            Counter(interface, "rx_octets") + Counter(interface, "tx_octets")
      [] metric = "rx_packets" -> Counter(interface, "rx_pkts")
      [] metric = "tx_packets" -> Counter(interface, "tx_pkts")

\* The returned entry is the entry of this upstream interface.
EntryOf(entry, interface) ==
    /\ \A metric \in SortMetrics : entry.dict[metric] = PyInt(MetricOf(interface, metric))
    /\ "interface" \in DOMAIN interface.dict
          => entry.dict.interface_name = interface.dict.interface
    /\ "deviceId" \in DOMAIN interface.dict
          => entry.dict.device_id = interface.dict.deviceId

\* The entries returned are those of the upstream interfaces at the places
\* from(1), from(2), ...: the largest by the metric, in non-increasing
\* order, entries of equal metric in upstream order.
TopBy(top, l, metric, from) ==
    /\ \A j \in 1..Len(top) : EntryOf(top[j], l[from[j]])
    /\ \A j, k \in 1..Len(top) : j < k =>
          /\ from[j] # from[k]
          /\ MetricOf(l[from[j]], metric) >= MetricOf(l[from[k]], metric)
          /\ MetricOf(l[from[j]], metric) = MetricOf(l[from[k]], metric)
                => from[j] < from[k]
    /\ \A i \in 1..Len(l) : \A j \in 1..Len(top) :
          (\A k \in 1..Len(top) : from[k] # i) =>
              /\ MetricOf(l[i], metric) <= MetricOf(l[from[j]], metric)
              /\ MetricOf(l[i], metric) = MetricOf(l[from[j]], metric) => from[j] < i

\* The interfaces of the fetched list are objects whose counters are
\* numbers or missing.
NumericCounters(l) ==
    \A i \in 1..Len(l) : \A k \in 1..Len(CounterKeys) :
        CounterKeys[k] \in DOMAIN l[i].dict => l[i].dict[CounterKeys[k]].t = "int"

\* A completed TopInterfacesByTraffic returned min(limit, n) entries (none
\* for a limit below 0), the largest by the metric in stable non-increasing
\* order.
TopAsClaimed ==
    LET l == ret.upstream.interfaces.value.list
        metric == ret.args.metric
        limit == ret.args.limit
    IN  /\ ResultWith(ret.outcome, {"top_interfaces", "total_interfaces"})
        /\ ret.outcome.value.dict.total_interfaces = PyInt(Len(l))
        /\ LET top == ret.outcome.value.dict.top_interfaces.list
           IN  /\ Len(top) = (IF limit < 0 THEN 0 ELSE Min(limit, Len(l)))
               /\ \E from \in [1..Len(top) -> 1..Len(l)] : TopBy(top, l, metric, from)

SubFetchFailed(outcome) == outcome.raised \/ HasErrorKey(outcome.value)

\* The number of sessions the controller lists for the devices at the given
\* places of the device list.
RECURSIVE SessionsListed(_, _, _)
SessionsListed(bfd, l, places) ==
    IF places = {} THEN 0
    ELSE LET i == CHOOSE j \in places : TRUE
         IN  Len(bfd[l[i].dict.deviceId.str[1]].value.list)
                + SessionsListed(bfd, l, places \ {i})

\* C17: in BfdSessionHealth a device whose per-device BFD fetch fails is
\* skipped and not counted, and the failure does not abort the aggregation:
\* the result is a summary whose total_devices_checked counts the devices
\* with an id whose fetch did not fail, and whose devices_with_bfd and
\* total_bfd_sessions are those of the devices whose fetch returned sessions.
C17_FailedDeviceNotCounted ==
    (Done("check_bfd_session_health") /\ ListOfObjects(ret.upstream.devices)) =>
        LET l == ret.upstream.devices.value.list
            bfd(i) == ret.upstream.bfd[l[i].dict.deviceId.str[1]]
            fetched == {i \in 1..Len(l) : HasDeviceId(l[i]) /\ ~SubFetchFailed(bfd(i))}
            with_sessions == {i \in fetched : /\ bfd(i).value.t = "list"
                                              /\ Len(bfd(i).value.list) > 0}
        IN  /\ ResultWith(ret.outcome, {"total_devices_checked", "devices_with_bfd",
                                        "total_bfd_sessions", "active_sessions",
                                        "inactive_sessions"})
            /\ ret.outcome.value.dict.total_devices_checked = PyInt(Cardinality(fetched))
            /\ ret.outcome.value.dict.devices_with_bfd = PyInt(Cardinality(with_sessions))
            /\ ret.outcome.value.dict.total_bfd_sessions
                  = PyInt(SessionsListed(ret.upstream.bfd, l, with_sessions))

\* The alerts a completed DeviceAlerts returned are as C18 says for the
\* severity asked for.
AlertsAsClaimed ==
    LET l == ret.upstream.devices.value.list
        severity == ret.args.severity
        result == ret.outcome.value.dict
        alerts == result.alerts.list
        of(s) == {i \in 1..Len(alerts) : alerts[i].dict.severity = PyStr(<<s>>)}
        unreachable == {i \in 1..Len(l) : FieldIs(l[i], "reachability", StrUnreachable)}
        off_normal == {i \in 1..Len(l) : ~FieldIs(l[i], "status", StrNormal)}
        down == AtPlaces(l, unreachable)
    IN  /\ ResultWith(ret.outcome, {"alerts", "total_alerts", "critical_alerts",
                                    "warning_alerts", "info_alerts"})
        /\ severity \in {"critical", "warning", "info"} => of(severity) = 1..Len(alerts)
        /\ result.total_alerts = PyInt(Len(alerts))
        /\ result.critical_alerts = PyInt(Cardinality(of("critical")))
        /\ result.warning_alerts = PyInt(Cardinality(of("warning")))
        /\ result.info_alerts = PyInt(Cardinality(of("info")))
        /\ of("critical") \cup of("warning") \cup of("info") = 1..Len(alerts)
        /\ severity = "critical" =>
              /\ Len(alerts) = Len(down)
              /\ \A i \in 1..Len(down) :
                    /\ alerts[i].dict.device_id = GetOrNone(down[i], "deviceId")
                    /\ alerts[i].dict.message = PyStr(<<"Device is unreachable">>)
              /\ result.critical_alerts = PyInt(Len(alerts))
        /\ severity = "all" =>
              Len(alerts) = Cardinality(unreachable) + Cardinality(off_normal)

\* C18: for every fetched device list and every severity in {critical,
\* warning, info}, every alert DeviceAlerts returns has the requested
\* severity and total_alerts = len(alerts) = critical_alerts +
\* warning_alerts + info_alerts, the counts being those of the returned
\* alerts; for severity "critical" the alerts are one per device whose
\* reachability is exactly "unreachable", and critical_alerts = len(alerts);
\* severity "all" returns every emitted alert.
C18_AlertsOfSeverity ==
    (/\ Done("get_device_alerts")
     /\ DeviceListFetched
     /\ ret.args.severity \in {"critical", "warning", "info", "all"})
        => AlertsAsClaimed

\* C18 where the fetch DeviceAlerts makes after the device list returns as
\* well (a fetch that does not raise, C1): the alerts are as claimed.
C18_AlertsWhenFetchesReturn ==
    (/\ Done("get_device_alerts")
     /\ DeviceListFetched
     /\ ~ret.upstream.monitor.raised
     /\ ret.args.severity \in {"critical", "warning", "info", "all"})
        => AlertsAsClaimed

\* A critical query that met an unreachable device and an off-normal one.
C18_CriticalAlertReturned ==
    /\ Done("get_device_alerts")
    /\ DeviceListFetched
    /\ ~ret.upstream.monitor.raised
    /\ ret.args.severity = "critical"
    /\ Len(ret.outcome.value.dict.alerts.list) = 1
    /\ Len(ret.upstream.devices.value.list) = 2

\* A completed NetworkReport whose result is a report and no error object.
ReportSucceeded ==
    Done("generate_network_report") /\ ResultWith(ret.outcome, {})

\* The first piece of the endpoint of every fetch the operation made.
Fetched == {ret.log[i].endpoint[1] : i \in 1..Len(ret.log)}

\* C19: in every successful NetworkReport result the keys interface_summary,
\* bfd_summary and tunnel_summary are present, each is null exactly when its
\* own flag is false, whatever the other two flags are, and a section whose
\* flag is false triggers no fetch for that section.
C19_SectionsFollowFlags ==
    ReportSucceeded =>
        LET report == ret.outcome.value.dict
            args == ret.args
        IN  /\ {"interface_summary", "bfd_summary", "tunnel_summary"}
                  \subseteq DOMAIN report
            /\ report.interface_summary.t = "NoneType" <=> ~args.include_interfaces
            /\ report.bfd_summary.t = "NoneType" <=> ~args.include_bfd
            /\ report.tunnel_summary.t = "NoneType" <=> ~args.include_tunnels
            /\ ~args.include_interfaces =>
                  Endpoint("get_interface_statistics")[1] \notin Fetched
            /\ ~args.include_bfd =>
                  /\ "/dataservice/device/bfd/sessions?deviceId=" \notin Fetched
                  /\ Cardinality({i \in 1..Len(ret.log) :
                        ret.log[i].endpoint = Endpoint("get_fabric_devices")}) = 2
            /\ ~args.include_tunnels =>
                  "/dataservice/device/tunnel/statistics?deviceId=" \notin Fetched

\* A report without the interface section, whose two other sections were
\* fetched per device.
C19_Witness ==
    /\ ReportSucceeded
    /\ ~ret.args.include_interfaces /\ ret.args.include_bfd /\ ret.args.include_tunnels
    /\ ret.outcome.value.dict.interface_summary = PyNone
    /\ ret.outcome.value.dict.bfd_summary.t = "dict"
    /\ "/dataservice/device/bfd/sessions?deviceId=" \in Fetched
    /\ "/dataservice/device/tunnel/statistics?deviceId=" \in Fetched

\* The section of a report is an object that carries a count over zero.
CountOverZero(section, key) ==
    /\ section.t = "dict"
    /\ key \in DOMAIN section.dict
    /\ section.dict[key].int > 0

\* The counter of an upstream interface is a number over 100.
ErrorsOver100(interface, key) ==
    /\ key \in DOMAIN interface.dict
    /\ interface.dict[key].t = "int"
    /\ interface.dict[key].int > 100

\* C20: in every successful NetworkReport result the recommendations list is
\* non-empty and holds the connectivity warning iff devices_down > 0, the
\* error warning iff the interface section is included and the fetched
\* interfaces hold one with more than 100 rx or tx errors, the
\* path-verification warning iff the BFD section is included and has an
\* inactive session; the "operating normally" message appears iff none of
\* the three warnings was triggered, and then it is the only entry.
C20_Recommendations ==
    ReportSucceeded =>
        LET report == ret.outcome.value.dict
            args == ret.args
            given == {report.recommendations.list[i] :
                         i \in 1..Len(report.recommendations.list)}
            interfaces == ret.upstream.interfaces.value
            down == CountOverZero(report.network_overview, "devices_down")
            high_error ==
                /\ args.include_interfaces
                /\ interfaces.t = "list"
                /\ \E i \in 1..Len(interfaces.list) :
                      \/ ErrorsOver100(interfaces.list[i], "rx_errors")
                      \/ ErrorsOver100(interfaces.list[i], "tx_errors")
            inactive == /\ args.include_bfd
                        /\ CountOverZero(report.bfd_summary, "inactive_sessions")
        IN  /\ Len(report.recommendations.list) > 0
            /\ ConnectivityWarning \in given <=> down
            /\ ErrorWarning \in given <=> high_error
            /\ PathWarning \in given <=> inactive
            /\ OperatingNormally \in given <=> ~(down \/ high_error \/ inactive)
            /\ OperatingNormally \in given =>
                  report.recommendations.list = <<OperatingNormally>>

\* A report that gives the three warnings.
C20_Witness ==
    /\ ReportSucceeded
    /\ ret.outcome.value.dict.recommendations
          = PyList(<<ConnectivityWarning, ErrorWarning, PathWarning>>)

\* A report that finds nothing to warn about with its three sections
\* included.
C20_NormalWitness ==
    /\ ReportSucceeded
    /\ ret.args.include_interfaces /\ ret.args.include_bfd /\ ret.args.include_tunnels
    /\ Len(ret.upstream.devices.value.list) > 0
    /\ ret.outcome.value.dict.recommendations = PyList(<<OperatingNormally>>)

\* The aggregation tools.
AggregationTools ==
    {"get_device_health_summary", "filter_devices_by_status",
     "get_top_interfaces_by_traffic", "check_bfd_session_health",
     "get_device_alerts", "monitor_interface_utilization", "get_network_topology",
     "generate_network_report"}

\* The fetch returned a value that is no list (an error object, as a rule).
NoListFetched(outcome) == ~outcome.raised /\ outcome.value.t # "list"

\* Every one of these counts that the object carries is zero.
ZeroAt(object, keys) ==
    object.t = "dict" =>
        \A key \in keys \cap DOMAIN object.dict : object.dict[key] = PyInt(0)

\* The section of a result, or the result itself where it has no such
\* section.
SectionOf(result, key) ==
    IF key \in DOMAIN result.dict THEN result.dict[key] ELSE PyNone

\* The counts of a result that are derived from the fetch of the device
\* list.
DeviceCounts ==
    {"total_devices", "devices_up", "devices_down", "filtered_count",
     "total_devices_checked", "devices_with_bfd", "total_bfd_sessions",
     "active_sessions", "inactive_sessions", "total_alerts", "critical_alerts",
     "warning_alerts", "info_alerts", "total_tunnels", "active_tunnels"}

\* The counts of a result that are derived from the fetch of the interfaces.
InterfaceCounts ==
    {"total_interfaces", "active_interfaces", "high_error_interfaces",
     "high_utilization_interfaces"}

\* C13: every aggregation operation returns a result object and never
\* raises, whatever its fetches yield; when a fetch yields a value that is
\* no list, every count the result derives from that fetch is zero.
C13_AggregationNeverRaises ==
    (ret.done /\ ret.tool \in AggregationTools) =>
        LET result == ret.outcome.value
            upstream == ret.upstream
            report == ret.tool = "generate_network_report"
        IN  /\ ~ret.outcome.raised
            /\ result.t = "dict"
            /\ ~ret.reply.is_error_text
            /\ (~report /\ NoListFetched(upstream.devices)) =>
                  /\ ZeroAt(result, DeviceCounts)
                  /\ ZeroAt(SectionOf(result, "network_summary"), {"total_devices"})
            /\ (~report /\ NoListFetched(upstream.interfaces)) =>
                  /\ ZeroAt(result, InterfaceCounts)
                  /\ ZeroAt(SectionOf(result, "network_summary"), {"total_interfaces"})
            /\ (report /\ NoListFetched(upstream.devices)) =>
                  ZeroAt(SectionOf(result, "network_overview"), DeviceCounts)
            /\ (report /\ NoListFetched(upstream.again[1])) =>
                  /\ ZeroAt(SectionOf(result, "device_summary"), DeviceCounts)
                  /\ ZeroAt(SectionOf(result, "tunnel_summary"), DeviceCounts)
            /\ (report /\ NoListFetched(upstream.again[2])) =>
                  ZeroAt(SectionOf(result, "bfd_summary"), DeviceCounts)
            /\ (report /\ NoListFetched(upstream.interfaces)) =>
                  ZeroAt(SectionOf(result, "interface_summary"), InterfaceCounts)

\* A health summary whose fetch of the devices yielded an error object: the
\* counts are there, and zero.
C13_Witness ==
    /\ Done("get_device_health_summary")
    /\ HasErrorKey(ret.upstream.devices.value)
    /\ ~ret.upstream.devices.raised
    /\ ResultWith(ret.outcome, {"total_devices", "devices_up", "devices_down"})
    /\ ret.outcome.value.dict.total_devices = PyInt(0)

\* A report one of whose fetches raised: the error object is returned.
C13_RaiseCaught ==
    /\ Done("generate_network_report")
    /\ ret.upstream.interfaces.raised
    /\ HasErrorKey(ret.outcome.value)

\* The log of a fetch holds at most two authentications, two GETs and two
\* answers.
AtMostTwoRounds(l) ==
    /\ Cardinality(Places(l, "GET")) <= 2
    /\ Cardinality(Places(l, "authenticate")) <= 2
    /\ Cardinality(Places(l, "response") \cup Places(l, "failure")) <= 2

\* C24: every fetch makes at most two GETs and at most two authentication
\* attempts on every path, also when it starts without a token and when the
\* retried GET signals expiry again: the retried response is not checked for
\* expiry but unwrapped as it is, and the call ends with it.
C24_AtMostTwoGets ==
    /\ \A p \in Procs : FetchInFlight(p) => AtMostTwoRounds(log[p])
    /\ FetchDone =>
          /\ AtMostTwoRounds(ret.log)
          /\ Cardinality(Places(ret.log, "response")) = 2 =>
                /\ ret.log[Len(ret.log)].e = "response"
                /\ ret.final.status_code = ret.log[Len(ret.log)].status_code
                /\ ret.outcome = Unwrap(ret.final)

\* A fetch that started without a token, was told twice that its session had
\* expired, and returned after its second GET.
C24_Witness ==
    /\ FetchDone
    /\ ~ret.held
    /\ Cardinality(Places(ret.log, "GET")) = 2
    /\ Cardinality(Places(ret.log, "authenticate")) = 2
    /\ ret.log[Len(ret.log)].e = "response"
    /\ SessionExpired(ret.log[Len(ret.log)])

\* How far a call has come: the awaits of _make_request in their order.
Rank(at) ==
    CASE at = "idle" -> 0
      [] at = "authenticate" -> 1
      [] at = "pre_auth" -> 1
      [] at = "get" -> 2
      [] at = "re_auth" -> 3
      [] at = "retry" -> 4

\* Every step of a call in flight takes it to a later await or ends it: no
\* path of a call loops, so a call whose awaits return has returned after at
\* most four of them.
C24_StepsAdvance ==
    [][\A p \in Procs :
          (pc[p] # "idle" /\ pc'[p] # pc[p]) =>
              (pc'[p] = "idle" \/ Rank(pc'[p]) > Rank(pc[p]))]_vars

\* The arguments carry a non-empty text under the key.
Carries(arguments, key) ==
    /\ arguments.t = "dict"
    /\ key \in DOMAIN arguments.dict
    /\ arguments.dict[key].t = "str"
    /\ Len(arguments.dict[key].str) > 0

\* The invocation lacks its required argument or names an unknown tool, and
\* the message that says so.
Lacking(name, arguments) ==
    \/ name \in DeviceTools /\ ~Carries(arguments, "device_id")
    \/ name = "filter_devices_by_status" /\ ~Carries(arguments, "status")
    \/ name \notin ToolNames

RejectionOf(name) ==
    IF name \in DeviceTools THEN "device_id is required"
    ELSE IF name = "filter_devices_by_status" THEN "status is required"
    ELSE "Unknown tool: " \o name

\* C22: a tool invocation that lacks its required argument (device_id for
\* the four device tools, status for filter_devices_by_status) or names an
\* unknown tool is answered with the text "Error: <message>"; the step that
\* answers it makes no GET and no authentication and leaves the session
\* token, the cookie jar and every call in flight as they were.
C22_RejectedAtDispatch ==
    [][(ret'.done /\ Lacking(ret'.tool, ret'.arguments)) =>
          /\ ret'.reply.type = "text"
          /\ ret'.reply.is_error_text
          /\ ret'.reply.content = PyStr(<<"Error: ", RejectionOf(ret'.tool)>>)
          /\ ret'.log = <<>>
          /\ ~auth'.done
          /\ session_id' = session_id
          /\ cookies' = cookies
          /\ last_auth' = last_auth
          /\ pc' = pc /\ log' = log]_vars

\* A device tool invoked without a device id while a token is held: it was
\* rejected.
C22_Witness ==
    /\ ret.done
    /\ ret.tool = "get_bfd_sessions"
    /\ ret.arguments = PyNone
    /\ ret.reply.is_error_text
    /\ Truthy(session_id)

\* An unknown tool was rejected.
C22_UnknownRejected ==
    /\ ret.done
    /\ ret.tool = "reboot_device"
    /\ ret.reply.content = PyStr(<<"Error: ", "Unknown tool: reboot_device">>)

\* A device tool invoked with a device id went on to its GET.
C22_Accepted ==
    /\ ret.done
    /\ ret.tool \in DeviceTools
    /\ ~Lacking(ret.tool, ret.arguments)
    /\ Places(ret.log, "GET") # {}

\* The value an upstream object carries under a key, None where it has none.
Carried(object, key) ==
    IF key \in DOMAIN object.dict THEN object.dict[key] ELSE PyNone

\* The places of the fetched interfaces that carry the device id of the
\* device (an id being a non-empty text).
InterfacesWithIdOf(device, interfaces) ==
    {j \in 1..Len(interfaces) :
        /\ Carried(interfaces[j], "deviceId").t = "str"
        /\ Len(Carried(interfaces[j], "deviceId").str) > 0
        /\ Carried(interfaces[j], "deviceId") = Carried(device, "deviceId")}

\* The entry of a node's interfaces list is this upstream interface.
IsInterface(entry, interface) ==
    /\ entry.dict.interface = Carried(interface, "interface")
    /\ entry.dict.status = Carried(interface, "if-admin-status")
    /\ entry.dict.ip_address = Carried(interface, "ip-address")

\* C23: for every fetched device list and interface list NetworkTopology
\* emits one node per device in upstream order; a node carries an
\* "interfaces" key iff at least one fetched interface has that node's
\* device_id, and then the list holds exactly the interfaces with that
\* device_id, in upstream order; a device with no matching interface has no
\* "interfaces" key.
C23_NodesAndInterfaces ==
    (/\ Done("get_network_topology")
     /\ ListOfObjects(ret.upstream.devices)
     /\ ListOfObjects(ret.upstream.interfaces)) =>
        LET devices == ret.upstream.devices.value.list
            interfaces == ret.upstream.interfaces.value.list
        IN  /\ ResultWith(ret.outcome, {"nodes"})
            /\ Len(ret.outcome.value.dict.nodes.list) = Len(devices)
            /\ \A i \in 1..Len(devices) :
                  LET node == ret.outcome.value.dict.nodes.list[i].dict
                      own == AtPlaces(interfaces, InterfacesWithIdOf(devices[i], interfaces))
                  IN  /\ node.device_id = Carried(devices[i], "deviceId")
                      /\ node.hostname = Carried(devices[i], "hostname")
                      /\ "interfaces" \in DOMAIN node <=> Len(own) > 0
                      /\ "interfaces" \in DOMAIN node =>
                            /\ Len(node.interfaces.list) = Len(own)
                            /\ \A j \in 1..Len(own) :
                                  IsInterface(node.interfaces.list[j], own[j])

\* A topology of two devices over three fetched interfaces: the first node
\* lists two of them, the second has no "interfaces" key.
C23_Witness ==
    /\ Done("get_network_topology")
    /\ ListOfObjects(ret.upstream.devices)
    /\ ListOfObjects(ret.upstream.interfaces)
    /\ Len(ret.upstream.interfaces.value.list) = 3
    /\ Len(ret.outcome.value.dict.nodes.list) = 2
    /\ "interfaces" \in DOMAIN ret.outcome.value.dict.nodes.list[1].dict
    /\ Len(ret.outcome.value.dict.nodes.list[1].dict.interfaces.list) = 2
    /\ "interfaces" \notin DOMAIN ret.outcome.value.dict.nodes.list[2].dict

\* A completed BfdSessionHealth returned a summary (no error object).
BfdSummarised ==
    /\ Done("check_bfd_session_health")
    /\ ResultWith(ret.outcome, {"total_devices_checked", "devices_with_bfd",
                                "total_bfd_sessions", "active_sessions",
                                "inactive_sessions"})

\* The number of devices the fetch of the device list returned.
FetchedDevices ==
    IF ~ret.upstream.devices.raised /\ ret.upstream.devices.value.t = "list"
    THEN Len(ret.upstream.devices.value.list) ELSE 0

\* C25: every BfdSessionHealth result satisfies active_sessions +
\* inactive_sessions = total_bfd_sessions and devices_with_bfd <=
\* total_devices_checked <= number of fetched devices, for every device list
\* and every per-device BFD response, also where a session's state is null
\* and where a device's sub-fetch fails.
C25_BfdCountsAddUp ==
    BfdSummarised =>
        LET summary == ret.outcome.value.dict
        IN  /\ summary.active_sessions.int + summary.inactive_sessions.int
                  = summary.total_bfd_sessions.int
            /\ summary.devices_with_bfd.int <= summary.total_devices_checked.int
            /\ summary.total_devices_checked.int <= FetchedDevices

\* The part of C25 about the devices: devices_with_bfd <=
\* total_devices_checked <= number of fetched devices, and active_sessions +
\* inactive_sessions never exceeds total_bfd_sessions.
C25_DevicesBounded ==
    BfdSummarised =>
        LET summary == ret.outcome.value.dict
        IN  /\ summary.active_sessions.int + summary.inactive_sessions.int
                  <= summary.total_bfd_sessions.int
            /\ summary.devices_with_bfd.int <= summary.total_devices_checked.int
            /\ summary.total_devices_checked.int <= FetchedDevices

\* What HealthSummary and FilterByStatus return on the snapshot a completed
\* DeviceAlerts("critical") has met.
HealthOnSnapshot == _get_device_health_summary(ret.upstream).outcome
FilterOnSnapshot(status) == _filter_devices_by_status(PyStr(status), ret.upstream).outcome

\* DeviceAlerts("critical") has completed on a fetched device list, and the
\* three operations return their results on that snapshot.
ClassifiedOnOneSnapshot ==
    /\ Done("get_device_alerts")
    /\ ret.args.severity = "critical"
    /\ ListOfObjects(ret.upstream.devices)
    /\ ResultWith(ret.outcome, {"critical_alerts"})
    /\ ResultWith(HealthOnSnapshot, {"devices_up", "devices_down"})
    /\ ResultWith(FilterOnSnapshot(StrDown), {"filtered_count"})
    /\ ResultWith(FilterOnSnapshot(StrUp), {"filtered_count"})

\* The counts the three operations give agree.
ClassifiedAlike ==
    /\ HealthOnSnapshot.value.dict.devices_down
          = FilterOnSnapshot(StrDown).value.dict.filtered_count
    /\ HealthOnSnapshot.value.dict.devices_down = ret.outcome.value.dict.critical_alerts
    /\ HealthOnSnapshot.value.dict.devices_up
          = FilterOnSnapshot(StrUp).value.dict.filtered_count

\* C26: on one snapshot, for every fetched device list,
\* HealthSummary.devices_down equals FilterByStatus("down").filtered_count
\* and DeviceAlerts("critical").critical_alerts, and HealthSummary.devices_up
\* equals FilterByStatus("up").filtered_count, whatever reachability the
\* devices carry (other values, none, other letter case).
C26_ClassifiedConsistently == ClassifiedOnOneSnapshot => ClassifiedAlike

\* C26 over the device lists whose devices all carry the reachability
\* "reachable" or "unreachable", letter for letter: the counts agree.
C26_ConsistentOnPlainValues ==
    (/\ ClassifiedOnOneSnapshot
     /\ \A i \in 1..Len(ret.upstream.devices.value.list) :
           \/ FieldIs(ret.upstream.devices.value.list[i], "reachability", StrReachable)
           \/ FieldIs(ret.upstream.devices.value.list[i], "reachability", StrUnreachable))
        => ClassifiedAlike

\* The fetch returned a list.
ListFetched(outcome) == ~outcome.raised /\ outcome.value.t = "list"

\* C27: NetworkReport gives the "operating normally" recommendation only
\* when its fetches of the device list returned a list, and the fetch of
\* the interfaces too where that section is included: after a fetch that
\* yielded an error value the report does not say that the network is
\* operating normally.
C27_NormalOnlyOverFetchedList ==
    (/\ ReportSucceeded
     /\ \E i \in 1..Len(ret.outcome.value.dict.recommendations.list) :
           ret.outcome.value.dict.recommendations.list[i] = OperatingNormally) =>
        /\ ListFetched(ret.upstream.devices)
        /\ ListFetched(ret.upstream.again[1])
        /\ ret.args.include_bfd => ListFetched(ret.upstream.again[2])
        /\ ret.args.include_interfaces => ListFetched(ret.upstream.interfaces)

\* Over fetches that all returned lists the message is given only where no
\* device is down.
C27_NormalOverLists ==
    (/\ ReportSucceeded
     /\ ListOfObjects(ret.upstream.devices)
     /\ Len(ret.upstream.devices.value.list) > 0
     /\ \E i \in 1..Len(ret.outcome.value.dict.recommendations.list) :
           ret.outcome.value.dict.recommendations.list[i] = OperatingNormally) =>
        \A i \in 1..Len(ret.upstream.devices.value.list) :
            FieldIs(ret.upstream.devices.value.list[i], "reachability", StrReachable)

\* What the completed aggregation operation returns when it is called again
\* with the same arguments on the same snapshot, the clock reading a later
\* time.
CalledAgain ==
    CASE ret.tool = "get_device_health_summary" ->
            _get_device_health_summary(ret.upstream).outcome
      [] ret.tool = "filter_devices_by_status" ->
            _filter_devices_by_status(ret.args.status, ret.upstream).outcome
      [] ret.tool = "get_top_interfaces_by_traffic" ->
            _get_top_interfaces_by_traffic(ret.args.limit, ret.args.metric,
                                           ret.upstream).outcome
      [] ret.tool = "check_bfd_session_health" ->
            _check_bfd_session_health(ret.args.include_details, ret.upstream).outcome
      [] ret.tool = "get_device_alerts" ->
            _get_device_alerts(ret.args.severity, ret.upstream).outcome
      [] ret.tool = "monitor_interface_utilization" ->
            _monitor_interface_utilization(ret.args.threshold, ret.upstream).outcome
      [] ret.tool = "get_network_topology" ->
            _get_network_topology(ret.upstream).outcome
      [] ret.tool = "generate_network_report" ->
            _generate_network_report(ret.args.include_interfaces, ret.args.include_bfd,
                                     ret.args.include_tunnels, ret.upstream,
                                     ret.time + 1).outcome

\* A result without its report_timestamp.
Untimed(outcome) ==
    IF ~outcome.raised /\ outcome.value.t = "dict"
    THEN [key \in DOMAIN outcome.value.dict \ {"report_timestamp"} |->
             outcome.value.dict[key]]
    ELSE outcome

====
